---- MODULE Spec2Model ----
(***************************************************************************)
(* Model of the EduGen syllabus backend: the text normalizer, the          *)
(* hierarchy tokenizer and the tree builders of server.js                  *)
(* (parseOBCSyllabus, parseCBCSyllabusTable), the POST /api/syllabi/parse  *)
(* handler of server.js, and the earlier handler variants that fall back   *)
(* to the external AI service.                                             *)
(*                                                                         *)
(* Texts are sequences of one-character strings, so that the regular       *)
(* expressions of the source are computed character by character.          *)
(***************************************************************************)
EXTENDS Integers, Sequences, FiniteSets, TLC

(***************************************************************************)
(* Characters and elementary string functions                              *)
(***************************************************************************)
Digits == {"0", "1", "2", "3", "4", "5", "6", "7", "8", "9"}

\* \s of the regular expressions and the characters String.trim() removes
WhiteSpace == {" ", "\t", "\n", "\r"}

NL == "\n"

\* the bullet glyph U+2022 of the source, written as an ASCII character
Bullet == "*"

UpperToLower ==
  [c \in {"A","B","C","D","E","F","G","H","I","J","K","L","M","N","O","P","Q",
          "R","S","T","U","V","W","X","Y","Z"} |->
     CASE c = "A" -> "a" [] c = "B" -> "b" [] c = "C" -> "c" [] c = "D" -> "d"
       [] c = "E" -> "e" [] c = "F" -> "f" [] c = "G" -> "g" [] c = "H" -> "h"
       [] c = "I" -> "i" [] c = "J" -> "j" [] c = "K" -> "k" [] c = "L" -> "l"
       [] c = "M" -> "m" [] c = "N" -> "n" [] c = "O" -> "o" [] c = "P" -> "p"
       [] c = "Q" -> "q" [] c = "R" -> "r" [] c = "S" -> "s" [] c = "T" -> "t"
       [] c = "U" -> "u" [] c = "V" -> "v" [] c = "W" -> "w" [] c = "X" -> "x"
       [] c = "Y" -> "y" [] c = "Z" -> "z"]

\* String.prototype.toLowerCase
toLowerCase(s) ==
  [i \in 1..Len(s) |-> IF s[i] \in DOMAIN UpperToLower THEN UpperToLower[s[i]] ELSE s[i]]

\* String.prototype.startsWith
startsWith(s, p) == Len(p) <= Len(s) /\ SubSeq(s, 1, Len(p)) = p

\* String.prototype.includes
includes(s, p) == \E i \in 1..(Len(s) - Len(p) + 1) : SubSeq(s, i, i + Len(p) - 1) = p

RECURSIVE SkipSpace(_, _)
\* first index >= i of s that holds no white space (Len(s)+1 when there is none)
SkipSpace(s, i) ==
  IF i <= Len(s) /\ s[i] \in WhiteSpace THEN SkipSpace(s, i + 1) ELSE i

RECURSIVE LastNonSpace(_, _)
\* last index <= i of s that holds no white space (0 when there is none)
LastNonSpace(s, i) ==
  IF i >= 1 /\ s[i] \in WhiteSpace THEN LastNonSpace(s, i - 1) ELSE i

\* at most one white-space character is removed from either end
trim_Once(s) ==
  SubSeq(s, IF s # <<>> /\ s[1] \in WhiteSpace THEN 2 ELSE 1,
            IF Len(s) > 1 /\ s[Len(s)] \in WhiteSpace THEN Len(s) - 1 ELSE Len(s))

\* String.prototype.trim
trim(s) == SubSeq(s, SkipSpace(s, 1), LastNonSpace(s, Len(s)))

RECURSIVE SplitFrom(_, _, _, _)
\* String.prototype.split on one separator character
SplitFrom(s, sep, i, cur) ==
  IF i > Len(s) THEN <<cur>>
  ELSE IF s[i] = sep THEN <<cur>> \o SplitFrom(s, sep, i + 1, <<>>)
  ELSE SplitFrom(s, sep, i + 1, Append(cur, s[i]))

split(s, sep) == SplitFrom(s, sep, 1, <<>>)

RECURSIVE SelectNonEmpty(_)
\* Array.prototype.filter(Boolean) on an array of strings
SelectNonEmpty(ls) ==
  IF ls = <<>> THEN <<>>
  ELSE IF Head(ls) = <<>> THEN SelectNonEmpty(Tail(ls))
  ELSE <<Head(ls)>> \o SelectNonEmpty(Tail(ls))

RECURSIVE DigitRun(_, _)
\* length of the maximal run of digits of s that starts at index i: \d+
DigitRun(s, i) ==
  IF i <= Len(s) /\ s[i] \in Digits THEN 1 + DigitRun(s, i + 1) ELSE 0

\* length of one greedy (\.\d+) at index i, 0 when it does not match
DotGroup(s, i) ==
  IF i <= Len(s) /\ s[i] = "." /\ DigitRun(s, i + 1) > 0
  THEN 1 + DigitRun(s, i + 1) ELSE 0

RECURSIVE DotGroups(_, _, _)
\* greedy (\.\d+){0,max} at index i: total length and number of groups
DotGroups(s, i, max) ==
  IF max = 0 \/ DotGroup(s, i) = 0 THEN [len |-> 0, n |-> 0]
  ELSE LET g == DotGroup(s, i)
           r == DotGroups(s, i + g, max - 1)
       IN [len |-> g + r.len, n |-> 1 + r.n]

(***************************************************************************)
(* Optional values: null is the empty sequence, a value x is <<x>>         *)
(***************************************************************************)
Null == <<>>

Some(x) == <<x>>

(***************************************************************************)
(* parseOBCSyllabus: the Normalizer                                        *)
(***************************************************************************)
\* .replace(/\r/g, '\n')
ReplaceCR(s) == [i \in 1..Len(s) |-> IF s[i] = "\r" THEN NL ELSE s[i]]

RECURSIVE CollapseNL(_, _)
\* .replace(/\n{2,}/g, '\n'), scanning from index i
CollapseNL(s, i) ==
  IF i > Len(s) THEN <<>>
  ELSE IF s[i] = NL /\ i < Len(s) /\ s[i + 1] = NL THEN CollapseNL(s, i + 1)
  ELSE <<s[i]>> \o CollapseNL(s, i + 1)

\* .replace(/[U+2022]/g, 'U+2022'): the pattern and the replacement are the
\* same glyph
ReplaceBullet(s) == [i \in 1..Len(s) |-> IF s[i] = Bullet THEN Bullet ELSE s[i]]

\* (10|11|12) at index i
TopSegmentAt(s, i) == i + 1 <= Len(s) /\ s[i] = "1" /\ s[i + 1] \in {"0", "1", "2"}

\* length of the match of /(10|11|12)\.\d+(\.\d+){0,2}/ at index i, 0 if none
NumberTokenLen(s, i) ==
  IF TopSegmentAt(s, i)
  THEN LET g == DotGroups(s, i + 2, 3) IN IF g.n >= 1 THEN 2 + g.len ELSE 0
  ELSE 0

RECURSIVE BreakBeforeNumbers(_, _)
\* text.replace(/((10|11|12)\.\d+(\.\d+){0,2})/g, '\n$1'): the matches are
\* taken left to right and do not overlap
BreakBeforeNumbers(s, i) ==
  IF i > Len(s) THEN <<>>
  ELSE LET n == NumberTokenLen(s, i)
       IN IF n > 0 THEN <<NL>> \o SubSeq(s, i, i + n - 1) \o BreakBeforeNumbers(s, i + n)
          ELSE <<s[i]>> \o BreakBeforeNumbers(s, i + 1)

\* the lines the loop of parseOBCSyllabus iterates over
Normalize(rawText) ==
  LET text == BreakBeforeNumbers(ReplaceBullet(CollapseNL(ReplaceCR(rawText), 1)), 1)
      ls   == split(text, NL)
  IN SelectNonEmpty([i \in 1..Len(ls) |-> trim(ls[i])])

(***************************************************************************)
(* parseOBCSyllabus: the tokenizer                                         *)
(***************************************************************************)
\* /^((10|11|12)(\.\d+){1,3})$/.test(line)
numberOnly(line) ==
  /\ TopSegmentAt(line, 1)
  /\ LET g == DotGroups(line, 3, 3) IN g.n >= 1 /\ 2 + g.len = Len(line)

\* line.match(/^((10|11|12)(\.\d+){1,3})\s*(.*)$/): null, or number and text
extract(line) ==
  LET n == NumberTokenLen(line, 1)
  IN IF n = 0 THEN Null
     ELSE Some([number |-> SubSeq(line, 1, n),
                text   |-> SubSeq(line, SkipSpace(line, n + 1), Len(line))])

\* /^sub\s*topic$/ on a lower-cased line
IsSubTopicHeader(l) ==
  /\ startsWith(l, <<"s", "u", "b">>)
  /\ SubSeq(l, SkipSpace(l, 4), Len(l)) = <<"t", "o", "p", "i", "c">>

\* /^topic$|^sub\s*topic$|^specific outcomes?$|^content$/i.test(line)
IsHeaderLine(line) ==
  LET l == toLowerCase(line)
  IN \/ l = <<"t", "o", "p", "i", "c">>
     \/ IsSubTopicHeader(l)
     \/ l = <<"s","p","e","c","i","f","i","c"," ","o","u","t","c","o","m","e">>
     \/ l = <<"s","p","e","c","i","f","i","c"," ","o","u","t","c","o","m","e","s">>
     \/ l = <<"c", "o", "n", "t", "e", "n", "t">>

(***************************************************************************)
(* parseOBCSyllabus: the tree builder.  The locals of one invocation are   *)
(* the record [topics, currentTopic, currentSubtopic, pendingNumber].      *)
(* currentTopic is a reference into topics: the index of the Topic, 0 for  *)
(* null.  currentSubtopic is a reference to a Subtopic: <<index of its     *)
(* Topic, index in that Topic's subtopics>>, <<0, 0>> for null.            *)
(* pendingNumber is a line, <<>> for null.                                 *)
(***************************************************************************)
NoTopic == 0

NoSubtopic == <<0, 0>>

NoNumber == <<>>

\* the locals as declared at the top of either parser
NewBuilder ==
  [topics |-> <<>>, currentTopic |-> NoTopic, currentSubtopic |-> NoSubtopic,
   pendingNumber |-> NoNumber]

\* the new Topic is put in front of the others
PushTopic_Front(b, fullText) ==
  [b EXCEPT !.topics = <<[name |-> fullText, subtopics |-> <<>>]>> \o @,
            !.currentTopic = 1,
            !.currentSubtopic = NoSubtopic]

\* the new Topic becomes current and the Subtopic stays open
PushTopic_KeepsSubtopic(b, fullText) ==
  [b EXCEPT !.topics = Append(@, [name |-> fullText, subtopics |-> <<>>]),
            !.currentTopic = Len(b.topics) + 1]

\* level 2: a new Topic is pushed and becomes current, the Subtopic is closed
PushTopic(b, fullText) ==
  [b EXCEPT !.topics = Append(@, [name |-> fullText, subtopics |-> <<>>]),
            !.currentTopic = Len(b.topics) + 1,
            !.currentSubtopic = NoSubtopic]

\* level 3: a new Subtopic is pushed to the current Topic and becomes current
PushSubtopic(b, fullText) ==
  LET t == b.currentTopic
  IN [b EXCEPT !.topics[t].subtopics =
                  Append(@, [name |-> fullText, specificOutcomes |-> <<>>,
                             knowledge |-> <<>>, skills |-> <<>>, values |-> <<>>]),
               !.currentSubtopic = <<t, Len(b.topics[t].subtopics) + 1>>]

\* the outcome is pushed to the current Subtopic twice
PushOutcome_Twice(b, fullText) ==
  LET t == b.currentSubtopic[1]
      u == b.currentSubtopic[2]
  IN [b EXCEPT !.topics[t].subtopics[u].specificOutcomes =
                  Append(Append(@, fullText), fullText)]

\* level 4: the outcome is pushed to the current Subtopic
PushOutcome(b, fullText) ==
  LET t == b.currentSubtopic[1]
      u == b.currentSubtopic[2]
  IN [b EXCEPT !.topics[t].subtopics[u].specificOutcomes = Append(@, fullText)]

\* line.replace(/^[-U+2022]\s*/, '').trim()
StripBullet(line) ==
  IF line # <<>> /\ line[1] \in {"-", Bullet}
  THEN trim(SubSeq(line, SkipSpace(line, 2), Len(line)))
  ELSE trim(line)

\* the bucket of a content string: values before skills before knowledge
Bucket(content) ==
  LET lower == toLowerCase(content)
  IN IF \/ startsWith(lower, <<"a","p","p","r","e","c","i","a","t">>)
        \/ startsWith(lower, <<"v","a","l","u","e">>)
     THEN "values"
     ELSE IF \/ startsWith(lower, <<"m","e","a","s","u","r","e">>)
             \/ startsWith(lower, <<"c","a","l","c","u","l","a","t","e">>)
             \/ startsWith(lower, <<"d","e","m","o","n","s","t","r","a","t","e">>)
     THEN "skills"
     ELSE "knowledge"

\* the content branch at the end of the loop body
PushContent(b, line) ==
  LET content == StripBullet(line)
      t == b.currentSubtopic[1]
      u == b.currentSubtopic[2]
  IN IF Len(content) < 3 THEN b
     ELSE IF Bucket(content) = "values"
     THEN [b EXCEPT !.topics[t].subtopics[u].values = Append(@, content)]
     ELSE IF Bucket(content) = "skills"
     THEN [b EXCEPT !.topics[t].subtopics[u].skills = Append(@, content)]
     ELSE [b EXCEPT !.topics[t].subtopics[u].knowledge = Append(@, content)]

\* the part of the loop body after "if (!parsed) continue"
Attach(b, line, parsed) ==
  LET level    == Len(split(parsed.number, "."))
      fullText == trim(parsed.number \o <<" ">> \o parsed.text)
  IN IF level = 2 THEN PushTopic(b, fullText)
     ELSE IF level = 3 /\ b.currentTopic # NoTopic THEN PushSubtopic(b, fullText)
     ELSE IF level = 4 /\ b.currentSubtopic # NoSubtopic THEN PushOutcome(b, fullText)
     ELSE IF /\ b.currentSubtopic # NoSubtopic
             /\ (startsWith(line, <<Bullet>>) \/ startsWith(line, <<"-">>))
     THEN PushContent(b, line)
     ELSE b

\* the loop body without the test of the header denylist
LoopBody_NoHeaderCheck(b, line) ==
  IF numberOnly(line) THEN [b EXCEPT !.pendingNumber = line]
  ELSE LET m == extract(line)
       IN IF m # Null THEN Attach(b, line, m[1])
          ELSE IF b.pendingNumber # NoNumber
          THEN Attach([b EXCEPT !.pendingNumber = NoNumber], line,
                      [number |-> b.pendingNumber, text |-> line])
          ELSE b

\* the loop body in which a line that is neither a number nor the text of a
\* pending number closes the open Subtopic
LoopBody_ProseCloses(b, line) ==
  IF IsHeaderLine(line) THEN b
  ELSE IF numberOnly(line) THEN [b EXCEPT !.pendingNumber = line]
  ELSE LET m == extract(line)
       IN IF m # Null THEN Attach(b, line, m[1])
          ELSE IF b.pendingNumber # NoNumber
          THEN Attach([b EXCEPT !.pendingNumber = NoNumber], line,
                      [number |-> b.pendingNumber, text |-> line])
          ELSE [b EXCEPT !.currentSubtopic = NoSubtopic]

\* one iteration of "for (const line of lines)"
LoopBody(b, line) ==
  IF IsHeaderLine(line) THEN b
  ELSE IF numberOnly(line) THEN [b EXCEPT !.pendingNumber = line]
  ELSE LET m == extract(line)
       IN IF m # Null THEN Attach(b, line, m[1])
          ELSE IF b.pendingNumber # NoNumber
          THEN Attach([b EXCEPT !.pendingNumber = NoNumber], line,
                      [number |-> b.pendingNumber, text |-> line])
          ELSE b

\* OBCResult without "if (!topics.length) return null"
OBCResult_NoEmptyCheck(tps, subject) ==
  Some([subject |-> subject, curriculumType |-> "obc",
        form |-> "Grade 10", topics |-> tps])

\* what parseOBCSyllabus returns for the topics built: null, or the record
OBCResult(tps, subject) ==
  IF Len(tps) = 0 THEN Null
  ELSE Some([subject |-> subject, curriculumType |-> "obc",
             form |-> "Grade 10", topics |-> tps])

RECURSIVE RunLines(_, _)
\* the whole loop over lines, from builder state b
RunLines(b, ls) ==
  IF ls = <<>> THEN b ELSE RunLines(LoopBody(b, Head(ls)), Tail(ls))

\* parseOBCSyllabus(rawText, subject)
parseOBCSyllabus(rawText, subject) ==
  OBCResult(RunLines(NewBuilder, Normalize(rawText)).topics, subject)

(***************************************************************************)
(* Helpers of the table parser.  The inner HTML of a cell is a sequence    *)
(* of characters in which a tag and a character entity are one element     *)
(* each ("<br>", "<li>", "&amp;").                                         *)
(***************************************************************************)
BreakTags == {"<br>", "<br/>", "<br />"}

OtherTags == {"<p>", "</p>", "<ul>", "</ul>", "<li>", "</li>", "<strong>", "</strong>"}

Entities == {"&nbsp;", "&amp;", "&lt;", "&gt;", "&quot;", "&#39;"}

\* the character an entity is decoded to
Decode(e) ==
  CASE e = "&nbsp;" -> " " [] e = "&amp;" -> "&" [] e = "&lt;" -> "<"
    [] e = "&gt;" -> ">" [] e = "&quot;" -> "\"" [] e = "&#39;" -> "'"

RECURSIVE StripTags(_, _)
\* the chain of replace calls shared by extractText and splitBulletContent;
\* li is what "<li>" becomes
StripTags(html, li) ==
  IF html = <<>> THEN <<>>
  ELSE LET c == Head(html)
           r == StripTags(Tail(html), li)
       IN IF c \in BreakTags THEN <<NL>> \o r
          ELSE IF c = "<li>" THEN li \o r
          ELSE IF c \in OtherTags THEN r
          ELSE IF c \in Entities THEN <<Decode(c)>> \o r
          ELSE <<c>> \o r

\* extractText(html)
extractText(html) == IF html = <<>> THEN <<>> ELSE trim(StripTags(html, <<>>))

\* the glyphs [U+2022 - U+25AA U+25E6] that start a bullet item
\* (U+25AA is written "+", U+25E6 is written "~")
BulletGlyphs == {Bullet, "-", "+", "~"}

RECURSIVE SplitItems(_, _, _)
\* text.split(/\n|(?=[bullet glyphs])/): a line break ends an item and is
\* dropped, a bullet glyph starts a new item and is kept
SplitItems(s, i, cur) ==
  IF i > Len(s) THEN <<cur>>
  ELSE IF s[i] = NL THEN <<cur>> \o SplitItems(s, i + 1, <<>>)
  ELSE IF s[i] \in BulletGlyphs /\ i > 1 THEN <<cur>> \o SplitItems(s, i + 1, <<s[i]>>)
  ELSE SplitItems(s, i + 1, Append(cur, s[i]))

\* item.replace(/^[bullet glyphs]\s*/, '').trim()
StripGlyph(item) ==
  IF item # <<>> /\ item[1] \in BulletGlyphs
  THEN trim(SubSeq(item, SkipSpace(item, 2), Len(item)))
  ELSE trim(item)

RECURSIVE SelectLong(_)
\* .filter(item => item.length > 2)
SelectLong(items) ==
  IF items = <<>> THEN <<>>
  ELSE IF Len(Head(items)) > 2 THEN <<Head(items)>> \o SelectLong(Tail(items))
  ELSE SelectLong(Tail(items))

\* splitBulletContent(html)
splitBulletContent(html) ==
  IF html = <<>> THEN <<>>
  ELSE LET text  == StripTags(html, <<NL, Bullet>>)
           items == SplitItems(text, 1, <<>>)
       IN SelectLong([i \in 1..Len(items) |-> StripGlyph(items[i])])

\* getNumberingInfo(text).level: /^(\d+\.\d+(?:\.\d+)?(?:\.\d+)?)\s*(.*)/s
getNumberingInfo(text) ==
  LET d == DigitRun(text, 1)
      g == DotGroups(text, d + 1, 3)
  IN IF d > 0 /\ g.n >= 1 THEN g.n + 1 ELSE 0

RECURSIVE Join(_, _)
\* Array.prototype.join
Join(cells, sep) ==
  IF cells = <<>> THEN <<>>
  ELSE IF Len(cells) = 1 THEN Head(cells)
  ELSE Head(cells) \o sep \o Join(Tail(cells), sep)

\* isHeaderRow(cells)
isHeaderRow(cells) ==
  LET combined == toLowerCase(Join(cells, <<" ">>))
  IN \/ /\ includes(combined, <<"t","o","p","i","c">>)
        /\ includes(combined, <<"s","u","b">>)
     \/ includes(combined, <<"s","p","e","c","i","f","i","c"," ","c","o","m","p","e","t","e","n","c","e">>)
     \/ includes(combined, <<"s","p","e","c","i","f","i","c","c","o","m","p","e","t","e","n","c","e">>)
     \/ includes(combined, <<"l","e","a","r","n","i","n","g"," ","a","c","t","i","v","i","t">>)
     \/ includes(combined, <<"e","x","p","e","c","t","e","d"," ","s","t","a","n","d","a","r","d">>)
     \/ includes(combined, <<"e","x","p","e","c","t","e","d","s","t","a","n","d","a","r","d">>)

(***************************************************************************)
(* parseCBCSyllabusTable: the callback of $('table tr').each.  A row is    *)
(* the sequence of the inner HTML of its td/th cells.  The locals topics,  *)
(* currentTopic and currentSubtopic are the record of NewBuilder           *)
(* (pendingNumber is not a local of this parser and stays null).           *)
(***************************************************************************)
RECURSIVE FirstAtLevel(_, _, _)
\* the index of the first cell at or after i whose numbering has this level,
\* 0 when there is none: the row's Topic, Subtopic or Competence signal
FirstAtLevel(cellTexts, level, i) ==
  IF i > Len(cellTexts) THEN 0
  ELSE IF getNumberingInfo(cellTexts[i]) = level THEN i
  ELSE FirstAtLevel(cellTexts, level, i + 1)

\* no element is ever found
FindName_Never(nodes, name, i) == 0

RECURSIVE FindName(_, _, _)
\* Array.prototype.find on a field equal to name: the index of the first
\* element of nodes whose field f is name, 0 when there is none
FindName(nodes, name, i) ==
  IF i > Len(nodes) THEN 0
  ELSE IF nodes[i].name = name THEN i
  ELSE FindName(nodes, name, i + 1)

RECURSIVE FindDescription(_, _, _)
FindDescription(nodes, text, i) ==
  IF i > Len(nodes) THEN 0
  ELSE IF nodes[i].description = text THEN i
  ELSE FindDescription(nodes, text, i + 1)

\* "Process TOPIC": reuse the Topic of that name, or push a new one
ProcessTopic(b, foundTopic) ==
  LET existing == FindName(b.topics, foundTopic, 1)
  IN IF existing # 0 THEN [b EXCEPT !.currentTopic = existing]
     ELSE [b EXCEPT !.topics = Append(@, [name |-> foundTopic, subtopics |-> <<>>]),
                    !.currentTopic = Len(b.topics) + 1,
                    !.currentSubtopic = NoSubtopic]

\* "Process SUBTOPIC": reuse the Subtopic of that name in the current Topic,
\* or push a new one
ProcessSubtopic(b, foundSubtopic) ==
  LET t == b.currentTopic
      existing == FindName(b.topics[t].subtopics, foundSubtopic, 1)
  IN IF existing # 0 THEN [b EXCEPT !.currentSubtopic = <<t, existing>>]
     ELSE [b EXCEPT !.topics[t].subtopics =
                       Append(@, [name |-> foundSubtopic, specificCompetences |-> <<>>]),
                    !.currentSubtopic = <<t, Len(b.topics[t].subtopics) + 1>>]

\* a competence met again takes the lists of the row that repeats it
ProcessCompetence_Overwrites(b, cellHtmls, foundCompetence, i) ==
  LET t == b.currentSubtopic[1]
      u == b.currentSubtopic[2]
      learningActivities ==
        IF i + 1 <= Len(cellHtmls) THEN splitBulletContent(cellHtmls[i + 1]) ELSE <<>>
      expectedStandards ==
        IF i + 2 <= Len(cellHtmls) THEN splitBulletContent(cellHtmls[i + 2]) ELSE <<>>
      existing ==
        FindDescription(b.topics[t].subtopics[u].specificCompetences, foundCompetence, 1)
      competence ==
        [description |-> foundCompetence,
         learningActivities |-> learningActivities,
         expectedStandards |-> expectedStandards]
  IN IF existing # 0
     THEN [b EXCEPT !.topics[t].subtopics[u].specificCompetences[existing] = competence]
     ELSE [b EXCEPT !.topics[t].subtopics[u].specificCompetences =
                       Append(@, competence)]

\* the activities and the standards are taken one cell further to the right
ProcessCompetence_Shifted(b, cellHtmls, foundCompetence, i) ==
  LET t == b.currentSubtopic[1]
      u == b.currentSubtopic[2]
      learningActivities ==
        IF i + 2 <= Len(cellHtmls) THEN splitBulletContent(cellHtmls[i + 2]) ELSE <<>>
      expectedStandards ==
        IF i + 3 <= Len(cellHtmls) THEN splitBulletContent(cellHtmls[i + 3]) ELSE <<>>
      existing ==
        FindDescription(b.topics[t].subtopics[u].specificCompetences, foundCompetence, 1)
  IN IF existing # 0 THEN b
     ELSE [b EXCEPT !.topics[t].subtopics[u].specificCompetences =
                       Append(@, [description |-> foundCompetence,
                                  learningActivities |-> learningActivities,
                                  expectedStandards |-> expectedStandards])]

\* "Process SPECIFIC COMPETENCE": cellHtmls is the row, i the index of the
\* competence cell
ProcessCompetence(b, cellHtmls, foundCompetence, i) ==
  LET t == b.currentSubtopic[1]
      u == b.currentSubtopic[2]
      learningActivities ==
        IF i + 1 <= Len(cellHtmls) THEN splitBulletContent(cellHtmls[i + 1]) ELSE <<>>
      expectedStandards ==
        IF i + 2 <= Len(cellHtmls) THEN splitBulletContent(cellHtmls[i + 2]) ELSE <<>>
      existing ==
        FindDescription(b.topics[t].subtopics[u].specificCompetences, foundCompetence, 1)
  IN IF existing # 0 THEN b
     ELSE [b EXCEPT !.topics[t].subtopics[u].specificCompetences =
                       Append(@, [description |-> foundCompetence,
                                  learningActivities |-> learningActivities,
                                  expectedStandards |-> expectedStandards])]

\* the three "Process" blocks of the callback, in their order
ProcessSignals(b, cellHtmls, cellTexts) ==
  LET ft == FirstAtLevel(cellTexts, 2, 1)
      fs == FirstAtLevel(cellTexts, 3, 1)
      fc == FirstAtLevel(cellTexts, 4, 1)
      b1 == IF ft # 0 THEN ProcessTopic(b, cellTexts[ft]) ELSE b
      b2 == IF fs # 0 /\ b1.currentTopic # NoTopic
            THEN ProcessSubtopic(b1, cellTexts[fs]) ELSE b1
  IN IF fc # 0 /\ b2.currentSubtopic # NoSubtopic
     THEN ProcessCompetence(b2, cellHtmls, cellTexts[fc], fc) ELSE b2

\* the callback for one row
RowBody(b, cellHtmls) ==
  IF Len(cellHtmls) < 2 THEN b
  ELSE LET cellTexts == [i \in 1..Len(cellHtmls) |-> extractText(cellHtmls[i])]
       IN IF isHeaderRow(cellTexts) THEN b
          ELSE ProcessSignals(b, cellHtmls, cellTexts)

\* what parseCBCSyllabusTable returns for the topics built: null, or the record
CBCResult(tps, subject) ==
  IF Len(tps) = 0 THEN Null
  ELSE Some([subject |-> subject, curriculumType |-> "cbc",
             form |-> "Form 1", topics |-> tps])

RECURSIVE RunRows(_, _)
\* the whole each loop over rows, from builder state b
RunRows(b, rows) ==
  IF rows = <<>> THEN b ELSE RunRows(RowBody(b, Head(rows)), Tail(rows))

\* parseCBCSyllabusTable(html, subject), html given as its table rows
parseCBCSyllabusTable(rows, subject) ==
  CBCResult(RunRows(NewBuilder, rows).topics, subject)

(***************************************************************************)
(* Input vocabulary: the pieces of document text the model draws from      *)
(***************************************************************************)
SP == <<" ">>

Dot(a, b) == a \o <<".">> \o b

N10x1 == Dot(<<"1", "0">>, <<"1">>)

N10x2 == Dot(<<"1", "0">>, <<"2">>)

N10x1x1 == Dot(N10x1, <<"1">>)

N10x2x1 == Dot(N10x2, <<"1">>)

N10x1x1x1 == Dot(N10x1x1, <<"1">>)

N10x2x2x1 == Dot(Dot(N10x2, <<"2">>), <<"1">>)

WGen == <<"G", "e", "n">>

WUni == <<"U", "n", "i">>

WMix == <<"M", "i", "x">>

WDis == <<"D", "i", "s">>

WOdd == <<"O", "d", "d">>

WOld == <<"O", "l", "d">>

WBig == <<"B", "i", "g">>

WTopic == <<"T", "o", "p", "i", "c">>

WKnows == <<"K", "n", "o", "w", "s">>

\* paragraphs of raw text as mammoth.extractRawText returns them
Paragraphs ==
  { N10x1 \o SP \o WGen,                     \* a Topic line
    N10x1,                                   \* a number alone on its line
    WGen,                                    \* a caption, or prose
    N10x1x1 \o SP \o WUni,                   \* a Subtopic of 10.1
    N10x2x1 \o SP \o WMix,                   \* a Subtopic of 10.2
    N10x1x1x1 \o SP \o WDis,                 \* an Outcome of 10.1.1
    N10x2x2x1 \o SP \o WOdd,                 \* an Outcome of 10.2.2
    <<Bullet>> \o SP \o WKnows,              \* a bullet line
    WTopic,                                  \* a table column header
    Dot(<<"9">>, N10x1) \o SP \o WOld,       \* 9.10.1: grade 9
    <<"1">> \o Dot(<<"1", "0">>, <<"5">>) \o SP \o WBig,   \* 110.5
    N10x2 \o SP \o WMix \o SP \o N10x2x1 \o SP \o WOdd }   \* two flattened lines

H(cell) == <<"<p>">> \o cell \o <<"</p>">>

C1x1 == H(<<"1", ".", "1">> \o SP \o WGen)

C1x2 == H(<<"1", ".", "2">> \o SP \o WMix)

C1x1x1 == H(<<"1", ".", "1", ".", "1">> \o SP \o WUni)

C1x2x1 == H(<<"1", ".", "2", ".", "1">> \o SP \o WOdd)

C1x1x1x1 == H(<<"1", ".", "1", ".", "1", ".", "1">> \o SP \o WDis)

C1x1x1x2 == H(<<"1", ".", "1", ".", "1", ".", "2">> \o SP \o WBig)

C2x1x1x1 == H(<<"2", ".", "1", ".", "1", ".", "1">> \o SP \o WOld)

CActs == <<"<ul>", "<li>">> \o WKnows \o <<"</li>", "<li>">> \o WMix \o <<"</li>", "</ul>">>

CStds == H(WGen \o <<"<br>", "-", " ">> \o WUni)

\* table rows of the HTML mammoth.convertToHtml returns, as cell lists
Rows ==
  { <<C1x1, C1x1x1, C1x1x1x1, CActs, CStds>>,     \* a fully populated row
    <<C1x1x1x2, CActs, CStds>>,                   \* a continuation row
    <<C1x1x1x1, CStds>>,                          \* a repeated competence
    <<C1x2, H(<<>>)>>,                            \* a Topic alone
    <<C1x1, C2x1x1x1>>,                           \* a repeated Topic, a competence
    <<C1x2x1, C2x1x1x1, CActs>>,                  \* a Subtopic of 1.2, no Topic cell
    <<H(WTopic), H(<<"S", "u", "b">>), H(WGen)>>, \* the header row
    <<C1x1>> }                                    \* a row of one cell

(***************************************************************************)
(* Bounds                                                                  *)
(***************************************************************************)
\* paragraphs of one text document
MaxParagraphs == 4

\* rows of one table document
MaxRows == 4

(***************************************************************************)
(* State                                                                   *)
(***************************************************************************)
VARIABLES
  pc,               \* where the handler of POST /api/syllabi/parse stands
  req,              \* the request: [file, curriculum]
  lines,            \* parseOBCSyllabus: the lines not yet iterated over
  nfed,             \* paragraphs or rows of the document consumed so far
  topics,           \* either parser: const topics
  currentTopic,     \* either parser: let currentTopic
  currentSubtopic,  \* either parser: let currentSubtopic
  pendingNumber,    \* parseOBCSyllabus: let pendingNumber
  parsed,           \* the handler: let parsed
  store,            \* the Syllabus collection, in creation order
  response,         \* the answer sent, null before
  aiCalls,          \* calls of the external AI service for the request
  doc,              \* a whole text document, as its sequence of lines
  outcome,          \* null, or what parseOBCSyllabus returned for doc
  variant,          \* which server runs: server.js or an earlier one
  fileText,         \* the fallback handler: let fileText
  ai,               \* null, or how the AI service answered the request
  prompt,           \* null, or the prompt sent to the AI service
  served,           \* requests answered so far
  log               \* the answers to requests whose AI call failed

builderVars == <<topics, currentTopic, currentSubtopic, pendingNumber>>

serverVars == <<pc, req, lines, nfed, parsed, store, response, aiCalls>>

textVars == <<doc, outcome>>

fallbackVars == <<variant, fileText, ai, prompt, served, log>>

\* the locals of the running parser as one record, and back
Builder ==
  [topics |-> topics, currentTopic |-> currentTopic,
   currentSubtopic |-> currentSubtopic, pendingNumber |-> pendingNumber]

SetBuilder(b) ==
  /\ topics' = b.topics
  /\ currentTopic' = b.currentTopic
  /\ currentSubtopic' = b.currentSubtopic
  /\ pendingNumber' = b.pendingNumber

\* a request field that was not sent
Undefined == "undefined"

\* the values of the curriculum field: the two kinds, a value that is neither,
\* none
Curricula == {"cbc", "obc", "CBC", Undefined}

Subjects == {"Physics", Undefined}

\* a category of the enumeration, one outside it, the empty value of a form
\* field left blank, none
Categories == {"primary", "tertiary", "", Undefined}

GradeRanges == {"Forms 1-4", Undefined}

\* the server of server.js, which has no AI fallback
Current == "current"

\* the fallback variables while server.js runs
InitCurrent ==
  /\ variant = Current
  /\ fileText = <<>>
  /\ ai = Null
  /\ prompt = Null
  /\ served = 0
  /\ log = {}

InitServer ==
  /\ pc = "idle"
  /\ req = [file |-> FALSE, curriculum |-> Undefined]
  /\ lines = <<>>
  /\ nfed = 0
  /\ topics = NewBuilder.topics
  /\ currentTopic = NewBuilder.currentTopic
  /\ currentSubtopic = NewBuilder.currentSubtopic
  /\ pendingNumber = NewBuilder.pendingNumber
  /\ parsed = Null
  /\ store = <<>>
  /\ response = Null
  /\ aiCalls = 0

(***************************************************************************)
(* POST /api/syllabi/parse of server.js                                    *)
(***************************************************************************)
Respond(status, error) ==
  /\ response' = Some([status |-> status, error |-> error])
  /\ pc' = "done"

\* the request arrives; without a file it is answered 400, with one the
\* conversion is awaited
Receive ==
  /\ pc = "idle"
  /\ \E file \in BOOLEAN, curriculum \in Curricula :
       /\ req' = [file |-> file, curriculum |-> curriculum]
       /\ IF ~file
          THEN Respond(400, "No file uploaded")
          ELSE pc' = "converting" /\ UNCHANGED response
  /\ UNCHANGED <<lines, nfed, parsed, store, aiCalls>>
  /\ UNCHANGED builderVars
  /\ UNCHANGED <<textVars, fallbackVars>>

\* mammoth rejects the buffer: the catch block answers 500
ConvertThrows ==
  /\ pc = "converting"
  /\ Respond(500, "conversion failed")
  /\ UNCHANGED <<req, lines, nfed, parsed, store, aiCalls>>
  /\ UNCHANGED builderVars
  /\ UNCHANGED <<textVars, fallbackVars>>

\* the dispatch with the line parser kept for 'obc' only
SelectParser_ObcOnly(curriculum) ==
  IF curriculum = "obc" THEN "text" ELSE "table"

\* if (curriculum === 'cbc') the table parser, else the line parser
SelectParser(curriculum) ==
  IF curriculum = "cbc" THEN "table" ELSE "text"

\* mammoth resolves: the parser selected by the curriculum starts
ConvertReturns ==
  /\ pc = "converting"
  /\ pc' = SelectParser(req.curriculum)
  /\ UNCHANGED <<req, lines, nfed, parsed, store, response, aiCalls>>
  /\ UNCHANGED builderVars
  /\ UNCHANGED <<textVars, fallbackVars>>

\* parseOBCSyllabus: the next paragraph of the raw text is normalized.  No
\* pattern of the Normalizer matches across a line break, so the lines of the
\* text are the lines of its paragraphs, in order
ReadParagraph ==
  /\ pc = "text"
  /\ lines = <<>>
  /\ nfed < MaxParagraphs
  /\ \E p \in Paragraphs : lines' = Normalize(p)
  /\ nfed' = nfed + 1
  /\ UNCHANGED <<pc, req, parsed, store, response, aiCalls>>
  /\ UNCHANGED builderVars
  /\ UNCHANGED <<textVars, fallbackVars>>

\* parseOBCSyllabus: one iteration of the loop over lines
LoopIteration ==
  /\ pc = "text"
  /\ lines # <<>>
  /\ SetBuilder(LoopBody(Builder, Head(lines)))
  /\ lines' = Tail(lines)
  /\ UNCHANGED <<pc, req, nfed, parsed, store, response, aiCalls>>
  /\ UNCHANGED <<textVars, fallbackVars>>

\* parseCBCSyllabusTable: the callback runs on the next row
RowIteration ==
  /\ pc = "table"
  /\ nfed < MaxRows
  /\ \E row \in Rows : SetBuilder(RowBody(Builder, row))
  /\ nfed' = nfed + 1
  /\ UNCHANGED <<pc, req, lines, parsed, store, response, aiCalls>>
  /\ UNCHANGED <<textVars, fallbackVars>>

\* the end of the document: the parser returns to the handler
ParserReturns ==
  /\ pc \in {"text", "table"}
  /\ lines = <<>>
  /\ \E subject \in Subjects :
       parsed' = IF pc = "table" THEN CBCResult(topics, subject)
                 ELSE OBCResult(topics, subject)
  /\ pc' = "parsed"
  /\ UNCHANGED <<req, lines, nfed, store, response, aiCalls>>
  /\ UNCHANGED builderVars
  /\ UNCHANGED <<textVars, fallbackVars>>

\* if (!parsed) return res.status(400)
ParsingFailed ==
  /\ pc = "parsed"
  /\ parsed = Null
  /\ Respond(400, "Parsing failed. Could not extract syllabus structure from the document.")
  /\ UNCHANGED <<req, lines, nfed, parsed, store, aiCalls>>
  /\ UNCHANGED builderVars
  /\ UNCHANGED <<textVars, fallbackVars>>

\* the request fields that x || y replaces by y
Falsy == {Undefined, ""}

\* the record is given the request's fields, and its first Topic only
AddRequestFields_FirstTopic(record, category, gradeRange) ==
  [subject |-> record.subject,
   curriculumType |-> record.curriculumType,
   form |-> record.form,
   topics |-> SubSeq(record.topics, 1, 1),
   category |-> IF category \in Falsy THEN "secondary" ELSE category,
   gradeRange |-> IF gradeRange \in Falsy THEN "N/A" ELSE gradeRange]

\* parsed.category = category || 'secondary';
\* parsed.gradeRange = gradeRange || 'N/A'
AddRequestFields(record, category, gradeRange) ==
  [subject |-> record.subject,
   curriculumType |-> record.curriculumType,
   form |-> record.form,
   topics |-> record.topics,
   category |-> IF category \in Falsy THEN "secondary" ELSE category,
   gradeRange |-> IF gradeRange \in Falsy THEN "N/A" ELSE gradeRange]

\* category and gradeRange are added and Syllabus.create is awaited
CallCreate ==
  /\ pc = "parsed"
  /\ parsed # Null
  /\ \E category \in Categories, gradeRange \in GradeRanges :
       parsed' = Some(AddRequestFields(parsed[1], category, gradeRange))
  /\ pc' = "creating"
  /\ UNCHANGED <<req, lines, nfed, store, response, aiCalls>>
  /\ UNCHANGED builderVars
  /\ UNCHANGED <<textVars, fallbackVars>>

\* the validation of SyllabusSchema without the enumeration of category
Validates_AnyCategory(record) ==
  /\ record.subject # Undefined
  /\ record.curriculumType \in {"cbc", "obc"}
  /\ \A i \in 1..Len(record.topics) : record.topics[i].name # <<>>

\* the validation of SyllabusSchema
Validates(record) ==
  /\ record.subject # Undefined
  /\ record.curriculumType \in {"cbc", "obc"}
  /\ record.category \in {"early-childhood", "primary", "secondary"}
  /\ \A i \in 1..Len(record.topics) : record.topics[i].name # <<>>

\* Syllabus.create resolves: the record is stored and the handler answers
CreateResolves ==
  /\ pc = "creating"
  /\ Validates(parsed[1])
  /\ store' = Append(store, parsed[1])
  /\ Respond(200, "")
  /\ UNCHANGED <<req, lines, nfed, parsed, aiCalls>>
  /\ UNCHANGED builderVars
  /\ UNCHANGED <<textVars, fallbackVars>>

\* Syllabus.create rejects (validation, or the database): the catch block
\* answers 500
CreateRejects ==
  /\ pc = "creating"
  /\ Respond(500, "create failed")
  /\ UNCHANGED <<req, lines, nfed, parsed, store, aiCalls>>
  /\ UNCHANGED builderVars
  /\ UNCHANGED <<textVars, fallbackVars>>

NextServer ==
  \/ Receive
  \/ ConvertThrows
  \/ ConvertReturns
  \/ ReadParagraph
  \/ LoopIteration
  \/ RowIteration
  \/ ParserReturns
  \/ ParsingFailed
  \/ CallCreate
  \/ CreateResolves
  \/ CreateRejects

vars == <<pc, req, lines, nfed, topics, currentTopic, currentSubtopic,
          pendingNumber, parsed, store, response, aiCalls, doc, outcome,
          variant, fileText, ai, prompt, served, log>>

\* one request to POST /api/syllabi/parse of server.js
Init == InitServer /\ InitCurrent /\ doc = <<>> /\ outcome = Null

Next == NextServer

Spec == Init /\ [][Next]_vars

(***************************************************************************)
(* parseOBCSyllabus as a function of a whole document                      *)
(***************************************************************************)
\* lines of one document
MaxDocLines == 3

\* the lines a document is made of: the paragraphs, a Topic line whose
\* caption is a column header, and a line numbered with five segments
DocLines ==
  Paragraphs \cup {N10x1 \o SP \o WTopic,
                   Dot(N10x1x1x1, <<"1">>) \o SP \o WBig}

RECURSIVE SeqsUpTo(_, _)
\* the sequences of at most n elements of S
SeqsUpTo(S, n) ==
  IF n = 0 THEN {<<>>}
  ELSE LET shorter == SeqsUpTo(S, n - 1)
       IN shorter \cup {Append(q, x) : q \in shorter, x \in S}

\* the raw text of a document: its lines joined by line breaks
RawText(d) == Join(d, <<NL>>)

InitText ==
  /\ InitServer
  /\ InitCurrent
  /\ doc \in SeqsUpTo(DocLines, MaxDocLines)
  /\ outcome = Null

\* parseOBCSyllabus is called on the text of the document
CallParser ==
  /\ outcome = Null
  /\ outcome' = Some(parseOBCSyllabus(RawText(doc), "Physics"))
  /\ UNCHANGED doc
  /\ UNCHANGED serverVars
  /\ UNCHANGED builderVars
  /\ UNCHANGED fallbackVars

NextText == CallParser

SpecText == InitText /\ [][NextText]_vars

(***************************************************************************)
(* parseCBCSyllabusTable as a function of a whole table                    *)
(***************************************************************************)
\* rows of one table
MaxTableRows == 3

\* the rows a table is made of: the rows above, a continuation row that holds
\* nothing but its competence cell, and a continuation row whose next cell
\* reads "Sub Topic"
TableRows ==
  Rows \cup {<<C1x1x1x2>>, <<C1x1x1x2, H(<<"S", "u", "b">> \o SP \o WTopic)>>}

InitTable ==
  /\ InitServer
  /\ InitCurrent
  /\ doc \in SeqsUpTo(TableRows, MaxTableRows)
  /\ outcome = Null

\* parseCBCSyllabusTable is called on the table
CallTableParser ==
  /\ outcome = Null
  /\ outcome' = Some(parseCBCSyllabusTable(doc, "Physics"))
  /\ UNCHANGED doc
  /\ UNCHANGED serverVars
  /\ UNCHANGED builderVars
  /\ UNCHANGED fallbackVars

NextTable == CallTableParser

SpecTable == InitTable /\ [][NextTable]_vars

(***************************************************************************)
(* parseOBCSyllabus on documents of four lines: a heading of each level    *)
(* and a content line, in any order                                        *)
(***************************************************************************)
\* the lines of such a document
ScenarioLines ==
  { N10x1 \o SP \o WGen,
    N10x1x1 \o SP \o WUni,
    N10x2x1 \o SP \o WMix,
    N10x1x1x1 \o SP \o WDis,
    <<Bullet>> \o SP \o WKnows,
    WGen }

InitScenario ==
  /\ InitServer
  /\ InitCurrent
  /\ doc \in [1..4 -> ScenarioLines]
  /\ outcome = Null

NextScenario == CallParser

SpecScenario == InitScenario /\ [][NextScenario]_vars

(***************************************************************************)
(* The Normalizer of parseOBCSyllabus as a function of a raw text, which   *)
(* is built from pieces: line ends, blanks, digit groups, a word, a glyph  *)
(***************************************************************************)
\* pieces of one raw text
MaxPieces == 4

Pieces ==
  { <<"\r">>, <<NL>>, SP, <<"1", "0">>, <<".", "1">>, <<"1">>,
    <<"9", ".">>, WGen, <<Bullet>> }

\* the raw text made of the pieces
Concat(pieces) == Join(pieces, <<>>)

InitNormalizer ==
  /\ InitServer
  /\ InitCurrent
  /\ doc \in SeqsUpTo(Pieces, MaxPieces)
  /\ outcome = Null

\* the Normalizer runs on the raw text
CallNormalizer ==
  /\ outcome = Null
  /\ outcome' = Some(Normalize(Concat(doc)))
  /\ UNCHANGED doc
  /\ UNCHANGED serverVars
  /\ UNCHANGED builderVars
  /\ UNCHANGED fallbackVars

NextNormalizer == CallNormalizer

SpecNormalizer == InitNormalizer /\ [][NextNormalizer]_vars

(***************************************************************************)
(* The earlier servers (the priority parser and the segment parser), whose *)
(* POST /api/syllabi/parse falls back to the external AI service.  Both    *)
(* share the pre-processing, callClaude and the handler.                   *)
(***************************************************************************)
\* length of the match of /\d+(\.\d+){k-1}\s/ at index i of s, 0 if none
PlainNumberLen(s, i, k) ==
  LET d == DigitRun(s, i)
      g == DotGroups(s, i + d, k - 1)
      e == i + d + g.len
  IN IF d > 0 /\ g.n = k - 1 /\ e <= Len(s) /\ s[e] \in WhiteSpace
     THEN e - i + 1 ELSE 0

RECURSIVE BreakBeforePlain(_, _, _)
\* .replace(/(\d+(\.\d+){k-1}\s)/g, '\n$1'), scanning from index i
BreakBeforePlain(s, i, k) ==
  IF i > Len(s) THEN <<>>
  ELSE LET n == PlainNumberLen(s, i, k)
       IN IF n > 0 THEN <<NL>> \o SubSeq(s, i, i + n - 1) \o BreakBeforePlain(s, i + n, k)
          ELSE <<s[i]>> \o BreakBeforePlain(s, i + 1, k)

RECURSIVE ReplaceCRLF(_, _)
\* .replace(/\r\n/g, '\n')
ReplaceCRLF(s, i) ==
  IF i > Len(s) THEN <<>>
  ELSE IF s[i] = "\r" /\ i < Len(s) /\ s[i + 1] = NL THEN <<NL>> \o ReplaceCRLF(s, i + 2)
  ELSE <<s[i]>> \o ReplaceCRLF(s, i + 1)

\* "1. PRE-PROCESSING" of parseZambianSyllabus: cleanText.split('\n')
PreProcess(text) ==
  split(BreakBeforePlain(BreakBeforePlain(BreakBeforePlain(
          ReplaceCRLF(text, 1), 1, 2), 1, 3), 1, 4), NL)

\* "Skip headers": the line holds one of the four header strings
IsHeaderString(str) ==
  \/ includes(str, <<"P","h","y","s","i","c","s"," ","5","0","5","4">>)
  \/ includes(str, <<"G","r","a","d","e"," ","1","0","-","1","2">>)
  \/ includes(str, <<"T","O","P","I","C">>)
  \/ includes(str, <<"C","O","N","T","E","N","T">>)

\* length of the match of (?:10|11|12|8|9) at the start of str, 0 if none
GradeLen(str) ==
  IF TopSegmentAt(str, 1) THEN 2
  ELSE IF str # <<>> /\ str[1] \in {"8", "9"} THEN 1
  ELSE 0

\* the number and the caption after a number that ends before index e, null
\* unless white space and then text follow: the tail \s+(.+) of the patterns
NumberAndText(str, e) ==
  IF e <= Len(str) /\ str[e] \in WhiteSpace /\ SkipSpace(str, e) <= Len(str)
  THEN Some([number |-> SubSeq(str, 1, e - 1),
             text   |-> trim(SubSeq(str, SkipSpace(str, e), Len(str)))])
  ELSE Null

\* str.match(/^\s*((?:10|11|12|8|9)(\.\d+){k-1})\s+(.+)/) on a trimmed line:
\* outcomeRegex (k = 4), subtopicRegex (k = 3), topicRegex (k = 2)
StrictMatch(str, k) ==
  LET t == GradeLen(str)
      g == DotGroups(str, t + 1, k - 1)
  IN IF t > 0 /\ g.n = k - 1 THEN NumberAndText(str, t + g.len + 1) ELSE Null

\* the Subtopic object both parsers create
NewSubtopic(name) ==
  [name |-> name, competencies |-> <<>>, scopeOfLessons |-> <<>>,
   activities |-> <<>>, expectedStandards |-> <<>>, specificOutcomes |-> <<>>,
   knowledge |-> <<>>, skills |-> <<>>, values |-> <<>>]

RECURSIVE SkipMarkers(_, _)
\* first index >= i of str that holds no bullet, dash or white space
SkipMarkers(str, i) ==
  IF i <= Len(str) /\ str[i] \in (WhiteSpace \cup {Bullet, "-"})
  THEN SkipMarkers(str, i + 1) ELSE i

\* str.replace(/^[bullet, -, \s, U+F0B7]+/, '').trim()
StripMarkers(str) == trim(SubSeq(str, SkipMarkers(str, 1), Len(str)))

\* "CONTENT (No Number)": a bullet or dash line under the current Subtopic
ContentLine(b, str, curriculum) ==
  LET content == StripMarkers(str)
      lower   == toLowerCase(content)
      t == b.currentSubtopic[1]
      u == b.currentSubtopic[2]
  IN IF /\ b.currentSubtopic # NoSubtopic
        /\ (startsWith(str, <<Bullet>>) \/ startsWith(str, <<"-">>))
        /\ Len(content) > 3
        /\ curriculum = "obc"
     THEN IF \/ startsWith(lower, <<"a","s","k","i","n","g">>)
             \/ startsWith(lower, <<"p","a","r","t","i","c","i","p","a","t","i","n","g">>)
             \/ startsWith(lower, <<"a","p","p","r","e","c","i","a","t","i","n","g">>)
          THEN [b EXCEPT !.topics[t].subtopics[u].values = Append(@, content)]
          ELSE IF \/ startsWith(lower, <<"m","e","a","s","u","r","i","n","g">>)
                  \/ startsWith(lower, <<"c","a","l","c","u","l","a","t","i","n","g">>)
                  \/ startsWith(lower, <<"c","o","m","p","a","r","i","n","g">>)
          THEN [b EXCEPT !.topics[t].subtopics[u].skills = Append(@, content)]
          ELSE [b EXCEPT !.topics[t].subtopics[u].knowledge = Append(@, content)]
     ELSE b

\* what either parseZambianSyllabus returns for the topics built
ZambianResult(tps, curriculum, subject) ==
  IF Len(tps) > 0
  THEN Some([subject |-> subject, curriculumType |-> curriculum,
             form |-> IF curriculum = "cbc" THEN "Form 1" ELSE "Grade 10",
             topics |-> tps])
  ELSE Null
\* the priority parser: the callback of lines.forEach
PriorityBody(b, line, curriculum) ==
  LET str == trim(line)
      om  == StrictMatch(str, 4)
      sm  == StrictMatch(str, 3)
      tm  == StrictMatch(str, 2)
      t   == b.currentTopic
      cs  == b.currentSubtopic
  IN IF str = <<>> \/ IsHeaderString(str) THEN b
     ELSE IF om # Null
     THEN IF cs # NoSubtopic
             /\ startsWith(om[1].number, b.topics[cs[1]].subtopics[cs[2]].number)
          THEN IF curriculum = "obc"
               THEN [b EXCEPT !.topics[cs[1]].subtopics[cs[2]].specificOutcomes =
                                 Append(@, om[1].number \o SP \o om[1].text)]
               ELSE [b EXCEPT !.topics[cs[1]].subtopics[cs[2]].competencies =
                                 Append(@, om[1].number \o SP \o om[1].text)]
          ELSE b
     ELSE IF sm # Null
     THEN IF t # NoTopic /\ startsWith(sm[1].number, b.topics[t].number)
          THEN [b EXCEPT !.topics[t].subtopics =
                            Append(@, [number |-> sm[1].number]
                                      @@ NewSubtopic(sm[1].number \o SP \o sm[1].text)),
                         !.currentSubtopic = <<t, Len(b.topics[t].subtopics) + 1>>]
          ELSE b
     ELSE IF tm # Null
     THEN [b EXCEPT !.topics = Append(@, [number |-> tm[1].number,
                                          name |-> tm[1].number \o SP \o tm[1].text,
                                          subtopics |-> <<>>]),
                    !.currentTopic = Len(b.topics) + 1,
                    !.currentSubtopic = NoSubtopic]
     ELSE ContentLine(b, str, curriculum)

\* str.match(/^\s*(\d+(?:\.\d+)+)\.?\s+(.+)/) on a trimmed line: numberRegex
SegmentMatch(str) ==
  LET d == DigitRun(str, 1)
      g == DotGroups(str, d + 1, Len(str))
      e == d + g.len + 1
      m == IF e <= Len(str) /\ str[e] = "."
           THEN NumberAndText(str, e + 1) ELSE NumberAndText(str, e)
  IN IF d > 0 /\ g.n >= 1 /\ m # Null
     THEN Some([number |-> SubSeq(str, 1, d + g.len), text |-> m[1].text])
     ELSE Null

\* the segment parser: the callback of lines.forEach
SegmentBody(b, line, curriculum) ==
  LET str == trim(line)
      m   == SegmentMatch(str)
      segments == Len(split(m[1].number, "."))
      name == m[1].number \o SP \o m[1].text
      t   == b.currentTopic
      cs  == b.currentSubtopic
  IN IF str = <<>> \/ IsHeaderString(str) THEN b
     ELSE IF m = Null THEN ContentLine(b, str, curriculum)
     ELSE IF segments = 2
     THEN [b EXCEPT !.topics = Append(@, [name |-> name, subtopics |-> <<>>]),
                    !.currentTopic = Len(b.topics) + 1,
                    !.currentSubtopic = NoSubtopic]
     ELSE IF segments = 3 /\ t # NoTopic
     THEN [b EXCEPT !.topics[t].subtopics = Append(@, NewSubtopic(name)),
                    !.currentSubtopic = <<t, Len(b.topics[t].subtopics) + 1>>]
     ELSE IF segments = 4 /\ cs # NoSubtopic
     THEN IF curriculum = "obc"
          THEN [b EXCEPT !.topics[cs[1]].subtopics[cs[2]].specificOutcomes = Append(@, name)]
          ELSE [b EXCEPT !.topics[cs[1]].subtopics[cs[2]].competencies = Append(@, name)]
     ELSE b

\* the servers that fall back to the AI service
Variants == {"priority", "segment"}

RECURSIVE RunZambian(_, _, _, _)
\* lines.forEach of the variant's parser, from builder state b
RunZambian(variantName, b, ls, curriculum) ==
  IF ls = <<>> THEN b
  ELSE RunZambian(variantName,
                  IF variantName = "priority" THEN PriorityBody(b, Head(ls), curriculum)
                  ELSE SegmentBody(b, Head(ls), curriculum),
                  Tail(ls), curriculum)

\* parseZambianSyllabus(text, curriculum, subject) of the variant
parseZambianSyllabus(variantName, text, curriculum, subject) ==
  ZambianResult(RunZambian(variantName, NewBuilder, PreProcess(text), curriculum).topics,
                curriculum, subject)
(***************************************************************************)
(* The reply of the AI service.  A reply is a text over "{", "}", white    *)
(* space, prose characters and two atoms that stand for the member list of *)
(* a JSON object: TopicsMembers for the members of a syllabus with one     *)
(* Topic, EmptyMembers for those of a syllabus whose topics array is empty.*)
(***************************************************************************)
TopicsMembers == "T"

EmptyMembers == "E"

\* stands for a code-fence marker
Fence == "#"

RECURSIVE indexOf(_, _, _)
\* index of the first c in s at or after i, 0 if none
indexOf(s, c, i) ==
  IF i > Len(s) THEN 0
  ELSE IF s[i] = c THEN i
  ELSE indexOf(s, c, i + 1)

RECURSIVE lastIndexOf(_, _, _)
\* index of the last c in s at or before i, 0 if none
lastIndexOf(s, c, i) ==
  IF i < 1 THEN 0
  ELSE IF s[i] = c THEN i
  ELSE lastIndexOf(s, c, i - 1)

\* rawResponse.match(/\{[\s\S]*\}/): greedy, from the first "{" to the last "}"
JsonMatch(rawResponse) ==
  LET a == indexOf(rawResponse, "{", 1)
      z == lastIndexOf(rawResponse, "}", Len(rawResponse))
  IN IF a > 0 /\ z > a THEN Some(SubSeq(rawResponse, a, z)) ELSE Null

\* the object {}: it has no member of its own, the one field here stands for
\* what it inherits
EmptyObject == [constructor |-> "Object"]

\* the object a member list denotes
ObjectOf(members) ==
  IF members = <<TopicsMembers>>
  THEN [subject |-> "Physics", curriculumType |-> "obc", form |-> "Grade 10",
        topics |-> <<[name |-> N10x1 \o SP \o WGen, subtopics |-> <<>>]>>]
  ELSE IF members = <<EmptyMembers>>
  THEN [subject |-> "Physics", curriculumType |-> "obc", form |-> "Grade 10",
        topics |-> <<>>]
  ELSE EmptyObject

\* JSON.parse(text) for a text that starts with "{": the object, or null
\* where JSON.parse throws a SyntaxError
JSONParse(text) ==
  LET t == trim(text)
      members == trim(SubSeq(t, 2, Len(t) - 1))
  IN IF /\ Len(t) >= 2
        /\ t[1] = "{"
        /\ t[Len(t)] = "}"
        /\ members \in {<<>>, <<TopicsMembers>>, <<EmptyMembers>>}
     THEN Some(ObjectOf(members))
     ELSE Null

\* the replies of the service: prose only, an object, an object in a code
\* fence, an object without members, braces around prose, an object followed
\* by a second one, an object with an empty topics array
Replies ==
  { <<"n", "o">>,
    <<"{", TopicsMembers, "}">>,
    <<Fence, "{", TopicsMembers, "}", Fence>>,
    <<"{", "}">>,
    <<"{", "n", "o", "}">>,
    <<"{", TopicsMembers, "}", " ", "{", "}">>,
    <<"{", EmptyMembers, "}">> }

\* some part of the text is a well-formed JSON object
HasParseableObject(text) ==
  \E i \in 1..Len(text) : \E j \in i..Len(text) :
     text[i] = "{" /\ JSONParse(SubSeq(text, i, j)) # Null

\* how callClaude ended, and with what text
Unreachable == Some([result |-> "unreachable", text |-> <<>>])

NonSuccess == Some([result |-> "non_success", text |-> <<>>])

Replied(text) == Some([result |-> "ok", text |-> text])

\* the failure kind of an attempt: fetch rejected, !response.ok, or a reply
\* that holds no JSON object; "none" without attempt or with an object
FailureKind(attempt) ==
  IF attempt = Null THEN "none"
  ELSE IF attempt[1].result = "unreachable" THEN "unreachable"
  ELSE IF attempt[1].result = "non_success" THEN "non_success"
  ELSE IF ~HasParseableObject(attempt[1].text) THEN "no_json"
  ELSE "none"

(***************************************************************************)
(* POST /api/syllabi/parse of the servers with the AI fallback             *)
(***************************************************************************)
\* requests handled one after the other
MaxRequests == 2

\* the requests: each field sent or not
FallbackRequests ==
  [file : BOOLEAN, curriculum : Curricula, subject : Subjects]

\* the texts extracted from the uploads: a Topic line, a line numbered 1.1,
\* a line without number, a Topic line and a Subtopic line
FallbackTexts ==
  { N10x1 \o SP \o WGen,
    <<"1", ".", "1">> \o SP \o WGen,
    WGen,
    N10x1 \o SP \o WGen \o <<NL>> \o N10x1x1 \o SP \o WUni }

\* what the fallback handler never touches
idleVars == <<lines, nfed, builderVars, textVars, variant>>

InitFallback ==
  /\ InitServer
  /\ variant \in Variants
  /\ fileText = <<>>
  /\ ai = Null
  /\ prompt = Null
  /\ served = 0
  /\ log = {}
  /\ doc = <<>>
  /\ outcome = Null

\* an answer is sent; the answer to a request whose AI call failed is logged
FRespond(status, error, attempt) ==
  /\ response' = Some([status |-> status, error |-> error])
  /\ pc' = "done"
  /\ served' = served + 1
  /\ log' = IF FailureKind(attempt) = "none" THEN log
            ELSE log \cup {[kind |-> FailureKind(attempt),
                            status |-> status, error |-> error]}

\* the catch block takes the call again instead of answering
Catch_Retry(attempt) ==
  /\ pc' = "local"
  /\ UNCHANGED <<response, served, log>>

\* the catch block of the handler
Catch(attempt) ==
  FRespond(500, "Failed to parse and save syllabus.", attempt)

\* the AI service is asked whatever the local parser returned
FallbackNeeded_Always(p) == TRUE

\* characters of the file text that go into the prompt
PromptBudget == 50000

\* the prompt of the fallback: the subject and fileText.substring(0, 50000)
Prompt(subject, text) ==
  [subject |-> subject,
   text |-> SubSeq(text, 1, IF Len(text) < PromptBudget THEN Len(text) ELSE PromptBudget)]

\* if (!parsedData): the AI service is asked when the local parser returned null
FallbackNeeded(p) == p = Null

\* !parsedData || !parsedData.topics || parsedData.topics.length === 0
NoTopics(p) ==
  IF p = Null THEN TRUE
  ELSE IF "topics" \notin DOMAIN p[1] THEN TRUE
  ELSE Len(p[1].topics) = 0

\* the validation of the SyllabusSchema with a required form
ValidatesForm(record) ==
  /\ record.subject # Undefined
  /\ record.curriculumType \in {"cbc", "obc"}
  /\ record.form # Undefined
  /\ \A i \in 1..Len(record.topics) :
       /\ record.topics[i].name # <<>>
       /\ \A j \in 1..Len(record.topics[i].subtopics) :
            record.topics[i].subtopics[j].name # <<>>

\* new Syllabus(parsedData): paths that are not in the schema are dropped
Cast(record) ==
  [subject |-> record.subject, curriculumType |-> record.curriculumType,
   form |-> record.form,
   topics |-> [i \in 1..Len(record.topics) |->
                 [name |-> record.topics[i].name,
                  subtopics |-> [j \in 1..Len(record.topics[i].subtopics) |->
                     [k \in DOMAIN record.topics[i].subtopics[j] \ {"number"} |->
                        record.topics[i].subtopics[j][k]]]]]]

\* a request arrives; one that lacks the file, the curriculum or the subject
\* is answered 400, for the others the text of the file is extracted
FReceive ==
  /\ pc \in {"idle", "done"}
  /\ served < MaxRequests
  /\ \E r \in FallbackRequests :
       /\ req' = r
       /\ IF ~r.file \/ r.curriculum = Undefined \/ r.subject = Undefined
          THEN FRespond(400, "Missing file, curriculum, or subject", Null)
          ELSE /\ pc' = "extracting"
               /\ response' = Null
               /\ UNCHANGED <<served, log>>
  /\ parsed' = Null
  /\ fileText' = <<>>
  /\ ai' = Null
  /\ prompt' = Null
  /\ aiCalls' = 0
  /\ UNCHANGED <<store, idleVars>>

\* the file is a Word document or a PDF and its conversion rejects
FExtractRejects ==
  /\ pc = "extracting"
  /\ Catch(ai)
  /\ UNCHANGED <<req, parsed, store, aiCalls, fileText, ai, prompt, idleVars>>

\* the text is extracted and parseZambianSyllabus runs on it
FExtractReturns ==
  /\ pc = "extracting"
  /\ \E text \in FallbackTexts :
       /\ fileText' = text
       /\ parsed' = parseZambianSyllabus(variant, text, req.curriculum, req.subject)
  /\ pc' = "local"
  /\ UNCHANGED <<req, store, response, aiCalls, ai, served, log, prompt, idleVars>>

\* parsedData is set: the fallback block is skipped
FSkipFallback ==
  /\ pc = "local"
  /\ ~FallbackNeeded(parsed)
  /\ pc' = "checking"
  /\ UNCHANGED <<req, parsed, store, response, aiCalls, fileText, ai, served,
                 log, prompt, idleVars>>

\* await callClaude(prompt): the request to the AI service is sent
FCallClaude ==
  /\ pc = "local"
  /\ FallbackNeeded(parsed)
  /\ aiCalls' = aiCalls + 1
  /\ prompt' = Some(Prompt(req.subject, fileText))
  /\ pc' = "fetching"
  /\ UNCHANGED <<req, parsed, store, response, fileText, ai, served, log,
                 idleVars>>

\* fetch rejects: callClaude rethrows and the catch block answers
FFetchRejects ==
  /\ pc = "fetching"
  /\ ai' = Unreachable
  /\ Catch(ai')
  /\ UNCHANGED <<req, parsed, store, aiCalls, fileText, prompt, idleVars>>

\* !response.ok: callClaude throws and the catch block answers
FFetchNotOk ==
  /\ pc = "fetching"
  /\ ai' = NonSuccess
  /\ Catch(ai')
  /\ UNCHANGED <<req, parsed, store, aiCalls, fileText, prompt, idleVars>>

\* callClaude returns the text of the reply: the match is parsed if there is
\* one, and a SyntaxError of JSON.parse goes to the catch block
FFetchOk ==
  /\ pc = "fetching"
  /\ \E reply \in Replies :
       LET jsonMatch == JsonMatch(reply)
       IN /\ ai' = Replied(reply)
          /\ IF jsonMatch = Null
             THEN /\ pc' = "checking"
                  /\ UNCHANGED <<parsed, response, served, log>>
             ELSE IF JSONParse(jsonMatch[1]) = Null
             THEN /\ Catch(ai')
                  /\ UNCHANGED parsed
             ELSE /\ parsed' = JSONParse(jsonMatch[1])
                  /\ pc' = "checking"
                  /\ UNCHANGED <<response, served, log>>
  /\ UNCHANGED <<req, store, aiCalls, fileText, prompt, idleVars>>

\* no parsedData or no topics in it: 400
FNoTopics ==
  /\ pc = "checking"
  /\ NoTopics(parsed)
  /\ FRespond(400, "Could not extract any topics. Ensure file uses standard numbering (10.1, 10.1.1).", ai)
  /\ UNCHANGED <<req, parsed, store, aiCalls, fileText, ai, prompt, idleVars>>

\* new Syllabus(parsedData) and await newSyllabus.save()
FSave ==
  /\ pc = "checking"
  /\ ~NoTopics(parsed)
  /\ pc' = "saving"
  /\ UNCHANGED <<req, parsed, store, response, aiCalls, fileText, ai, served,
                 log, prompt, idleVars>>

\* save resolves: the record is in the store and the handler answers
FSaveResolves ==
  /\ pc = "saving"
  /\ ValidatesForm(parsed[1])
  /\ store' = Append(store, Cast(parsed[1]))
  /\ FRespond(200, "", ai)
  /\ UNCHANGED <<req, parsed, aiCalls, fileText, ai, prompt, idleVars>>

\* save rejects (validation, or the database): the catch block answers
FSaveRejects ==
  /\ pc = "saving"
  /\ Catch(ai)
  /\ UNCHANGED <<req, parsed, store, aiCalls, fileText, ai, prompt, idleVars>>

NextFallback ==
  \/ FReceive
  \/ FExtractRejects
  \/ FExtractReturns
  \/ FSkipFallback
  \/ FCallClaude
  \/ FFetchRejects
  \/ FFetchNotOk
  \/ FFetchOk
  \/ FNoTopics
  \/ FSave
  \/ FSaveResolves
  \/ FSaveRejects

\* up to MaxRequests requests to a server with the AI fallback
SpecFallback == InitFallback /\ [][NextFallback]_vars

(***************************************************************************)
(* The fallback for documents longer than the prompt budget: the handler   *)
(* from the return of the local parser to the sending of the prompt.       *)
(***************************************************************************)
\* longest line of a long document, its line break included
MaxLineLen == 30

\* most characters a long document has beyond the budget
MaxExcess == 2

\* a document of n characters whose lines are len - 1 letters and a line
\* break; it holds no digit, so that the local parsers return null on it
LongText(len, n) ==
  [i \in 1..n |-> IF i % len = 0 THEN NL ELSE "a"]

LongTexts ==
  { LongText(len, PromptBudget + x) : len \in 2..MaxLineLen, x \in 1..MaxExcess }

\* the local parser has returned null for a long document
InitPrompt ==
  /\ pc = "local"
  /\ req = [file |-> TRUE, curriculum |-> "obc", subject |-> "Physics"]
  /\ lines = <<>>
  /\ nfed = 0
  /\ topics = NewBuilder.topics
  /\ currentTopic = NewBuilder.currentTopic
  /\ currentSubtopic = NewBuilder.currentSubtopic
  /\ pendingNumber = NewBuilder.pendingNumber
  /\ parsed = Null
  /\ store = <<>>
  /\ response = Null
  /\ aiCalls = 0
  /\ variant \in Variants
  /\ fileText \in LongTexts
  /\ ai = Null
  /\ prompt = Null
  /\ served = 0
  /\ log = {}
  /\ doc = <<>>
  /\ outcome = Null

NextPrompt == FCallClaude

SpecPrompt == InitPrompt /\ [][NextPrompt]_vars

(***************************************************************************)
(* The routes of server.js over the Syllabus collection.  Each action is   *)
(* one request handled to its answer; a handler touches the collection in  *)
(* one call only, so the steps around that call are folded into it.        *)
(* store[i] is the record with _id i, Removed once it was deleted.         *)
(***************************************************************************)
\* requests handled by the routes
MaxCalls == 3

\* the place of a deleted record
Removed == [removed |-> TRUE]

\* the uploads of the parse route: a curriculum and what mammoth returns
Uploads ==
  { [curriculum |-> "obc", value |-> N10x1 \o SP \o WGen],
    [curriculum |-> "obc", value |-> WGen],
    [curriculum |-> "cbc", value |-> << <<C1x1, C1x1x1>> >>] }

\* what the selected parser returns for an upload
ParseUpload(upload, subject) ==
  IF upload.curriculum = "cbc"
  THEN parseCBCSyllabusTable(upload.value, subject)
  ELSE parseOBCSyllabus(upload.value, subject)

\* the ids a request may name
Ids == 1..MaxCalls

\* the record with the id, null if there is none: Syllabus.findById
findById(st, id) ==
  IF id \in 1..Len(st) /\ st[id] # Removed THEN Some(st[id]) ELSE Null

\* anything but the asked record goes: the first record is removed
findByIdAndDelete_First(st, id) ==
  IF st # <<>> THEN [st EXCEPT ![1] = Removed] ELSE st

\* Syllabus.findByIdAndDelete: the record with the id is removed, if any
findByIdAndDelete(st, id) ==
  IF id \in 1..Len(st) THEN [st EXCEPT ![id] = Removed] ELSE st

RECURSIVE find(_)
\* Syllabus.find().sort({ createdAt: -1 }): the records, newest first
find(st) ==
  IF st = <<>> THEN <<>>
  ELSE IF st[Len(st)] = Removed THEN find(SubSeq(st, 1, Len(st) - 1))
  ELSE <<st[Len(st)]>> \o find(SubSeq(st, 1, Len(st) - 1))

\* what the routes but generate-document never touch
routeIdle ==
  <<pc, lines, nfed, parsed, aiCalls, builderVars, textVars, variant, fileText,
    ai, prompt, log>>

\* a request was answered
Answer(route, id, status, error, body) ==
  /\ req' = [route |-> route, id |-> id]
  /\ response' = Some([status |-> status, error |-> error, body |-> body])
  /\ served' = served + 1
  /\ UNCHANGED routeIdle

\* POST /api/syllabi/parse that ends with a failure: no file, no structure,
\* or Syllabus.create rejects
RouteParseFails ==
  /\ served < MaxCalls
  /\ \/ Answer("parse", 0, 400, "No file uploaded", <<>>)
     \/ \E upload \in Uploads, subject \in Subjects :
          IF ParseUpload(upload, subject) = Null
          THEN Answer("parse", 0, 400,
                      "Parsing failed. Could not extract syllabus structure from the document.",
                      <<>>)
          ELSE Answer("parse", 0, 500, "create failed", <<>>)
  /\ UNCHANGED store

\* POST /api/syllabi/parse that ends with success: Syllabus.create resolved
RouteParseSaves ==
  /\ served < MaxCalls
  /\ \E upload \in Uploads, subject \in Subjects :
       LET result == ParseUpload(upload, subject)
       IN /\ result # Null
          /\ \E category \in Categories, gradeRange \in GradeRanges :
               LET record == AddRequestFields(result[1], category, gradeRange)
               IN /\ Validates(record)
                  /\ store' = Append(store, record)
                  /\ Answer("parse", 0, 200, "", <<record>>)

\* GET /api/syllabi
RouteList ==
  /\ served < MaxCalls
  /\ \/ Answer("list", 0, 200, "", find(store))
     \/ Answer("list", 0, 500, "Failed to fetch syllabi", <<>>)
  /\ UNCHANGED store

\* GET /api/syllabi/:id
RouteGet ==
  /\ served < MaxCalls
  /\ \E id \in Ids :
       \/ /\ findById(store, id) = Null
          /\ Answer("get", id, 404, "Syllabus not found", <<>>)
       \/ /\ findById(store, id) # Null
          /\ Answer("get", id, 200, "", findById(store, id))
       \/ Answer("get", id, 500, "Failed to fetch syllabus", <<>>)
  /\ UNCHANGED store

\* DELETE /api/syllabi/:id
RouteDelete ==
  /\ served < MaxCalls
  /\ \E id \in Ids :
       \/ /\ store' = findByIdAndDelete(store, id)
          /\ Answer("delete", id, 200, "", <<>>)
       \/ /\ UNCHANGED store
          /\ Answer("delete", id, 500, "Failed to delete syllabus", <<>>)

\* req.body.prompt: none, empty, a text
GeneratePrompts == {Undefined, "", "Write a lesson plan"}

\* process.env.ANTHROPIC_API_KEY: not set, set
ApiKeys == {Undefined, "key"}

\* a request to generate-document was answered; attempt is null when fetch
\* was not called, else how the AI service answered
GenerateAnswer(p, key, status, error, body, attempt) ==
  /\ req' = [route |-> "generate", id |-> 0, prompt |-> p, key |-> key]
  /\ response' = Some([status |-> status, error |-> error, body |-> body])
  /\ served' = served + 1
  /\ ai' = attempt
  /\ aiCalls' = IF attempt = Null THEN 0 ELSE 1
  /\ prompt' = IF attempt = Null THEN Null ELSE Some(p)

\* the prompt is tested before the key
GenerateChecks_KeyFirst(p, key) ==
  IF key \in Falsy THEN "no key" ELSE IF p \in Falsy THEN "no prompt" ELSE "pass"

\* if (!prompt) ...; if (!process.env.ANTHROPIC_API_KEY) ...
GenerateChecks(p, key) ==
  IF p \in Falsy THEN "no prompt" ELSE IF key \in Falsy THEN "no key" ELSE "pass"

\* POST /api/generate-document: no prompt, no key, or the AI service is
\* called: fetch rejects, the service answers with a failure, or it replies
RouteGenerate ==
  /\ served < MaxCalls
  /\ \E p \in GeneratePrompts, key \in ApiKeys :
       IF GenerateChecks(p, key) = "no prompt"
       THEN GenerateAnswer(p, key, 400, "Prompt is required", <<>>, Null)
       ELSE IF GenerateChecks(p, key) = "no key"
       THEN GenerateAnswer(p, key, 500,
                           "AI service not configured. Please set ANTHROPIC_API_KEY.",
                           <<>>, Null)
       ELSE \/ GenerateAnswer(p, key, 500,
                              "Failed to generate document. Please try again.",
                              <<>>, Unreachable)
            \/ GenerateAnswer(p, key, 500, "AI generation failed", <<>>, NonSuccess)
            \/ GenerateAnswer(p, key, 200, "", <<"content">>, Replied(<<"content">>))
  /\ UNCHANGED <<store, pc, lines, nfed, parsed, builderVars, textVars, variant,
                 fileText, log>>

\* GET /ping
RoutePing ==
  /\ served < MaxCalls
  /\ Answer("ping", 0, 200, "", <<"EduGen backend is alive">>)
  /\ UNCHANGED store

NextRoutes ==
  \/ RouteParseFails
  \/ RouteParseSaves
  \/ RouteList
  \/ RouteGet
  \/ RouteDelete
  \/ RouteGenerate
  \/ RoutePing

\* up to MaxCalls requests to the routes of server.js
SpecRoutes == Init /\ [][NextRoutes]_vars

(***************************************************************************)
(* Two requests to POST /api/syllabi/parse of server.js in flight at once. *)
(* A handler gives way at its awaits only: of the conversion and of        *)
(* Syllabus.create.  pc, req, parsed and response hold one value for each  *)
(* request; the collection is shared; topics, currentTopic,                *)
(* currentSubtopic and pendingNumber hold the locals of the parser         *)
(* invocation that ran last.                                               *)
(***************************************************************************)
Requests == {1, 2}

\* the locals are shared: a parser starts from what the invocation before
\* it left
Locals_Shared(previous) == previous

\* the locals a parser starts from, whatever the invocation before it left:
\* they are declared inside the function
Locals(previous) == NewBuilder

\* the builder of the selected parser at its return
RunParser(upload, b) ==
  IF upload.curriculum = "cbc" THEN RunRows(b, upload.value)
  ELSE RunLines(b, Normalize(upload.value))

\* what the selected parser returns for the topics built
ParserResult(upload, tps, subject) ==
  IF upload.curriculum = "cbc" THEN CBCResult(tps, subject)
  ELSE OBCResult(tps, subject)

InitConcurrent ==
  /\ pc = [r \in Requests |-> "idle"]
  /\ req = [r \in Requests |-> [file |-> FALSE]]
  /\ parsed = [r \in Requests |-> Null]
  /\ response = [r \in Requests |-> Null]
  /\ store = <<>>
  /\ topics = NewBuilder.topics
  /\ currentTopic = NewBuilder.currentTopic
  /\ currentSubtopic = NewBuilder.currentSubtopic
  /\ pendingNumber = NewBuilder.pendingNumber
  /\ lines = <<>>
  /\ nfed = 0
  /\ aiCalls = 0
  /\ doc = <<>>
  /\ outcome = Null
  /\ InitCurrent

\* what no handler of the two touches
concurrentIdle == <<lines, nfed, aiCalls, textVars, fallbackVars>>

\* request r is answered
CRespond(r, status, error, body) ==
  /\ response' = [response EXCEPT ![r] =
                    Some([status |-> status, error |-> error, body |-> body])]
  /\ pc' = [pc EXCEPT ![r] = "done"]

\* request r arrives; without a file it is answered 400, with one the
\* conversion is awaited
CReceive ==
  \E r \in Requests :
    /\ pc[r] = "idle"
    /\ \/ /\ CRespond(r, 400, "No file uploaded", <<>>)
          /\ UNCHANGED req
       \/ /\ \E upload \in Uploads, subject \in Subjects,
                category \in Categories, gradeRange \in GradeRanges :
               req' = [req EXCEPT ![r] =
                         [file |-> TRUE, upload |-> upload, subject |-> subject,
                          category |-> category, gradeRange |-> gradeRange]]
          /\ pc' = [pc EXCEPT ![r] = "converting"]
          /\ UNCHANGED response
    /\ UNCHANGED <<parsed, store, builderVars, concurrentIdle>>

\* mammoth rejects the buffer of request r: the catch block answers 500
CConvertThrows ==
  \E r \in Requests :
    /\ pc[r] = "converting"
    /\ CRespond(r, 500, "conversion failed", <<>>)
    /\ UNCHANGED <<req, parsed, store, builderVars, concurrentIdle>>

\* mammoth resolves for request r: the parser runs from its first statement
\* to its return, then the handler answers 400 or adds the request's fields
\* and awaits Syllabus.create
CConvertReturns ==
  \E r \in Requests :
    /\ pc[r] = "converting"
    /\ LET b == RunParser(req[r].upload, Locals(Builder))
           result == ParserResult(req[r].upload, b.topics, req[r].subject)
       IN /\ SetBuilder(b)
          /\ IF result = Null
             THEN /\ CRespond(r, 400,
                              "Parsing failed. Could not extract syllabus structure from the document.",
                              <<>>)
                  /\ UNCHANGED parsed
             ELSE /\ parsed' = [parsed EXCEPT ![r] =
                                  Some(AddRequestFields(result[1], req[r].category,
                                                        req[r].gradeRange))]
                  /\ pc' = [pc EXCEPT ![r] = "creating"]
                  /\ UNCHANGED response
    /\ UNCHANGED <<req, store, concurrentIdle>>

\* Syllabus.create resolves for request r: the record is stored and answered
CCreateResolves ==
  \E r \in Requests :
    /\ pc[r] = "creating"
    /\ Validates(parsed[r][1])
    /\ store' = Append(store, parsed[r][1])
    /\ CRespond(r, 200, "", parsed[r])
    /\ UNCHANGED <<req, parsed, builderVars, concurrentIdle>>

\* Syllabus.create rejects for request r: the catch block answers 500
CCreateRejects ==
  \E r \in Requests :
    /\ pc[r] = "creating"
    /\ CRespond(r, 500, "create failed", <<>>)
    /\ UNCHANGED <<req, parsed, store, builderVars, concurrentIdle>>

NextConcurrent ==
  \/ CReceive
  \/ CConvertThrows
  \/ CConvertReturns
  \/ CCreateResolves
  \/ CCreateRejects

SpecConcurrent == InitConcurrent /\ [][NextConcurrent]_vars

(***************************************************************************)
(* The content classifier of the competency-based curriculum, as the       *)
(* content branch of parseZambianSyllabus applies it to a content string   *)
(* (the marker stripped, three characters or more)                         *)
(***************************************************************************)
\* the words whose presence anywhere makes a competence statement
CompetenceWords ==
  { <<"e", "x", "p", "l", "a", "i", "n">>,
    <<"d", "e", "s", "c", "r", "i", "b", "e">>,
    <<"d", "e", "f", "i", "n", "e">>,
    <<"i", "d", "e", "n", "t", "i", "f", "y">>,
    <<"s", "t", "a", "t", "e">>,
    <<"o", "u", "t", "l", "i", "n", "e">>,
    <<"a", "n", "a", "l", "y", "s", "e">>,
    <<"a", "n", "a", "l", "y", "z", "e">>,
    <<"e", "v", "a", "l", "u", "a", "t", "e">>,
    <<"a", "p", "p", "l", "y">> }

\* the words whose presence anywhere makes a learning activity
ActivityWords ==
  { <<"d", "e", "m", "o", "n", "s", "t", "r", "a", "t">>,
    <<"d", "i", "s", "c", "u", "s", "s">>,
    <<"i", "n", "v", "e", "s", "t", "i", "g", "a", "t">>,
    <<"p", "e", "r", "f", "o", "r", "m">>,
    <<"o", "b", "s", "e", "r", "v", "e">>,
    <<"e", "x", "p", "e", "r", "i", "m", "e", "n", "t">>,
    <<"g", "r", "o", "u", "p", " ", "w", "o", "r", "k">>,
    <<"p", "r", "a", "c", "t", "i", "c", "a", "l">> }

\* the bucket of a content string when curriculum === 'cbc'
CbcBucket(content) ==
  LET lower == toLowerCase(content)
  IN IF \/ \E w \in CompetenceWords : includes(lower, w)
        \/ startsWith(lower, <<"d", "e", "m", "o", "n", "s", "t", "r", "a", "t", "e", " ", "a", "b", "i", "l", "i", "t", "y">>)
     THEN "specificCompetences"
     ELSE IF \E w \in ActivityWords : includes(lower, w)
     THEN "learningActivities"
     ELSE "expectedStandards"

\* the words a content string starts with
FirstWords ==
  { <<"D", "i", "s", "c", "u", "s", "s">>,
    <<"E", "x", "p", "l", "a", "i", "n">>,
    <<"L", "i", "s", "t">>,
    <<"P", "e", "r", "f", "o", "r", "m">> }

\* the words that follow, or none
NextWords ==
  { <<>>,
    <<" ", "a", "n", "d", " ", "e", "x", "p", "l", "a", "i", "n">>,
    <<" ", "r", "e", "s", "u", "l", "t", "s">>,
    <<" ", "t", "o", " ", "o", "b", "s", "e", "r", "v", "e">> }

ContentStrings == {f \o n : f \in FirstWords, n \in NextWords}

InitClassifier ==
  /\ InitServer
  /\ InitCurrent
  /\ doc \in ContentStrings \X ContentStrings
  /\ outcome = Null

\* the two content strings are classified
Classify ==
  /\ outcome = Null
  /\ outcome' = Some(<<CbcBucket(doc[1]), CbcBucket(doc[2])>>)
  /\ UNCHANGED doc
  /\ UNCHANGED serverVars
  /\ UNCHANGED builderVars
  /\ UNCHANGED fallbackVars

NextClassifier == Classify

SpecClassifier == InitClassifier /\ [][NextClassifier]_vars

(***************************************************************************)
(* Numbers of the nodes of a tree, read back from their names              *)
(***************************************************************************)
\* the leading run of dot-separated digit groups of a name
LeadingNumber(name) ==
  LET d == DigitRun(name, 1)
  IN IF d = 0 THEN <<>> ELSE SubSeq(name, 1, d + DotGroups(name, d + 1, Len(name)).len)

\* its segments
Segments(name) == IF LeadingNumber(name) = <<>> THEN <<>> ELSE split(LeadingNumber(name), ".")

\* child has exactly n segments, the parent n - 1, and they are the child's first
Extends(child, parent, n) ==
  /\ Len(Segments(child)) = n
  /\ Len(Segments(parent)) = n - 1
  /\ SubSeq(Segments(child), 1, n - 1) = Segments(parent)

\* the tree under construction is the one of parseOBCSyllabus
InLineParser == req.file /\ req.curriculum # "cbc"

\* the tree under construction is the one of parseCBCSyllabusTable
InTableParser == req.file /\ req.curriculum = "cbc"

(***************************************************************************)
(* Claims                                                                  *)
(***************************************************************************)

\* C1: in a tree built by parseOBCSyllabus every Subtopic has a three-segment
\* number whose first two segments are the number of the Topic it is stored
\* under.
C1_SubtopicWithinTopic ==
  InLineParser =>
    \A t \in 1..Len(topics) : \A u \in 1..Len(topics[t].subtopics) :
      Extends(topics[t].subtopics[u].name, topics[t].name, 3)

\* C2: in a tree built by parseOBCSyllabus every Outcome has a four-segment
\* number whose first three segments are the number of the Subtopic it is
\* stored in (a level-4 line with another prefix is discarded).
C2_OutcomeWithinSubtopic ==
  InLineParser =>
    \A t \in 1..Len(topics) : \A u \in 1..Len(topics[t].subtopics) :
      \A o \in 1..Len(topics[t].subtopics[u].specificOutcomes) :
        Extends(topics[t].subtopics[u].specificOutcomes[o],
                topics[t].subtopics[u].name, 4)

\* C3: in a tree built by parseCBCSyllabusTable every Subtopic's number
\* extends its Topic's number by one segment and every specific competence's
\* number extends its Subtopic's number by one segment.
C3_TableContainment ==
  InTableParser =>
    \A t \in 1..Len(topics) : \A u \in 1..Len(topics[t].subtopics) :
      /\ Extends(topics[t].subtopics[u].name, topics[t].name, 3)
      /\ \A c \in 1..Len(topics[t].subtopics[u].specificCompetences) :
           Extends(topics[t].subtopics[u].specificCompetences[c].description,
                   topics[t].subtopics[u].name, 4)

\* the two lines "N" and "caption" of a line "N caption", <<>> for a line of
\* another form
SplitOf(line) ==
  LET m == extract(line)
      n == IF m = Null THEN 0 ELSE Len(m[1].number)
  IN IF /\ m # Null
        /\ Normalize(line) = <<line>>
        /\ n + 2 <= Len(line)
        /\ line[n + 1] = " "
        /\ line[n + 2] \notin WhiteSpace
     THEN <<m[1].number, SubSeq(line, n + 2, Len(line))>>
     ELSE <<>>

\* document d with its line i replaced by the two lines of SplitOf
SplitAt(d, i) == SubSeq(d, 1, i - 1) \o SplitOf(d[i]) \o SubSeq(d, i + 1, Len(d))

\* C4: replacing a line "N caption" of a document by the two lines "N" and
\* "caption" does not change the tree parseOBCSyllabus returns, whatever lines
\* precede and follow.
C4_SplitNumberEquivalence ==
  outcome # Null =>
    \A i \in 1..Len(doc) :
      SplitOf(doc[i]) # <<>> =>
        parseOBCSyllabus(RawText(SplitAt(doc, i)), "Physics") = outcome[1]

\* C5: a parser returns null exactly when it built no Topic, a returned record
\* never has an empty topics list, and no record without Topics is handed to
\* the store or stored.
C5_NonEmpty ==
  /\ pc = "parsed" => (parsed = Null <=> Len(topics) = 0)
  /\ parsed # Null => Len(parsed[1].topics) > 0
  /\ pc = "creating" => parsed # Null
  /\ \A i \in 1..Len(store) : Len(store[i].topics) > 0

\* C5, witness: a parser has returned null after consuming input, none of
\* which made a Topic
C5_Witness == pc = "parsed" /\ parsed = Null /\ nfed >= 2 /\ Len(topics) = 0

\* a digit group starts at index i of s and is the first of its number
NumberStartsAt(s, i) ==
  /\ s[i] \in Digits
  /\ ~(i > 1 /\ s[i - 1] \in Digits)
  /\ ~(i > 2 /\ s[i - 1] = "." /\ s[i - 2] \in Digits)

\* s holds a numbering token of two or more segments whose top-level segment
\* is 10, 11 or 12
HasValidNumber(s) ==
  \E i \in 1..Len(s) :
    /\ NumberStartsAt(s, i)
    /\ DigitRun(s, i) = 2
    /\ TopSegmentAt(s, i)
    /\ DotGroup(s, i + 2) > 0

\* C6: for a text with no numbering token in the valid top-level range
\* (10, 11, 12) parseOBCSyllabus returns null, also when the text holds numbers
\* such as 9.10.1 or 110.5.
C6_EmptyTreeFailure ==
  (outcome # Null /\ ~HasValidNumber(RawText(doc))) => outcome[1] = Null

\* C7: when the parser of a request returned null, the external AI service
\* has been called before the failure is answered.
C7_FallbackBeforeFailure ==
  (pc = "done" /\ req.file /\ parsed = Null /\ response[1].status = 400) => aiCalls >= 1

\* what the local parser returns for the request being handled
LocalResult ==
  parseZambianSyllabus(variant, fileText, req.curriculum, req.subject)

\* C8: in the handlers with a fallback the AI service is called at most once
\* per request, never before the local parser has run, and only when the local
\* parser returned null (zero Topics); a request whose local parse succeeds
\* never calls it.
C8_FallbackOnlyAfterLocalFailure ==
  /\ aiCalls <= 1
  /\ pc \in {"idle", "extracting"} => aiCalls = 0
  /\ aiCalls >= 1 => LocalResult = Null

\* a first request was saved from a local parse without any call, the second
\* one called the AI service once and was saved from its reply
C8_Witness ==
  /\ pc = "done"
  /\ served = 2
  /\ Len(store) = 2
  /\ store[1].topics[1].name = <<"1", ".", "1">> \o SP \o WGen
  /\ aiCalls = 1
  /\ LocalResult = Null
  /\ response[1].status = 200

\* the AI call of the request being handled failed
Failed == FailureKind(ai) # "none"

\* C9: once the AI call has thrown, returned a non-success response or
\* returned text with no parseable JSON object, the handler can only answer
\* with a failure: there is no second call, and no step creates a record.
C9_FailedFallbackIsTerminal ==
  /\ [](Failed => /\ aiCalls = 1
                  /\ pc \in {"checking", "done"}
                  /\ pc = "checking" => NoTopics(parsed)
                  /\ pc = "done" => response[1].status >= 400)
  /\ [][Failed' => store' = store]_vars

\* after a request that was saved, a request whose AI reply held no JSON
\* object has been answered with a failure
C9_Witness ==
  /\ pc = "done"
  /\ served = 2
  /\ Len(store) = 1
  /\ FailureKind(ai) = "no_json"
  /\ aiCalls = 1
  /\ response[1].status = 400

\* C10: failures of different kinds (service unreachable, non-success
\* response, reply without parseable JSON) are never answered with the same
\* status and error message.
C10_DistinctFailureReasons ==
  \A a \in log : \A b \in log :
     a.kind # b.kind => (a.status # b.status \/ a.error # b.error)

\* the first well-formed JSON object of a text that holds one: the one that
\* starts first and, from there, ends first
FirstObject(text) ==
  LET a == CHOOSE i \in 1..Len(text) :
             /\ \E j \in i..Len(text) :
                  text[i] = "{" /\ JSONParse(SubSeq(text, i, j)) # Null
             /\ \A h \in 1..(i - 1) : \A j \in h..Len(text) :
                  ~(text[h] = "{" /\ JSONParse(SubSeq(text, h, j)) # Null)
      z == CHOOSE j \in a..Len(text) :
             /\ JSONParse(SubSeq(text, a, j)) # Null
             /\ \A h \in a..(j - 1) : JSONParse(SubSeq(text, a, h)) = Null
  IN JSONParse(SubSeq(text, a, z))

\* C11: once the AI service has replied, parsedData is the first well-formed
\* JSON object of the reply when the reply holds one, whatever surrounds it,
\* and a reply that holds none leaves no parsedData (a failure).
C11_FirstJsonObjectParsed ==
  (ai # Null /\ ai[1].result = "ok") =>
     IF HasParseableObject(ai[1].text)
     THEN parsed = FirstObject(ai[1].text)
     ELSE parsed = Null

\* C12: when the document is longer than the budget, the text placed in the
\* prompt is a sequence of whole lines of the document: it ends with a line
\* break or right before one.
C12_PromptEndsAtLineBoundary ==
  (prompt # Null /\ Len(fileText) > PromptBudget) =>
     \/ prompt[1].text = <<>>
     \/ prompt[1].text[Len(prompt[1].text)] = NL
     \/ fileText[Len(prompt[1].text) + 1] = NL

\* C13: in the handler of server.js the conversion and the parsers run only
\* for a request that carries the file, the curriculum and the subject.
C13_InputContract ==
  /\ pc \in {"converting", "text", "table"} =>
       (req.file /\ req.curriculum # Undefined)
  /\ (variant = Current /\ parsed # Null) => parsed[1].subject # Undefined

\* C14: while a request to server.js is handled, and when it has been answered
\* with a failure (400 or 500), the store holds no record of it; when it has
\* been answered with success the store holds exactly one record, and that
\* record holds the whole tree the parser built.
C14_NoPartialCommit ==
  variant = Current =>
     /\ pc # "done" => store = <<>>
     /\ (pc = "done" /\ response[1].status # 200) => store = <<>>
     /\ (pc = "done" /\ response[1].status = 200) =>
          /\ Len(store) = 1
          /\ store[1].topics = topics

\* a document with two Topics was parsed and saved, and the request answered
C14_Witness ==
  /\ variant = Current
  /\ pc = "done"
  /\ response[1].status = 200
  /\ Len(store) = 1
  /\ Len(store[1].topics) >= 2
  /\ store[1].topics = topics

\* C15: over any sequence of requests to the routes, a step leaves every
\* stored record as it is unless it is a delete of that record's id, and the
\* store grows only by the one record of a parse answered with success.
C15_StoredRecordsImmutable ==
  [][ /\ Len(store') >= Len(store)
      /\ \A i \in 1..Len(store) :
           \/ store'[i] = store[i]
           \/ /\ store'[i] = Removed
              /\ req'.route = "delete"
              /\ req'.id = i
      /\ Len(store') > Len(store) =>
           /\ Len(store') = Len(store) + 1
           /\ store'[Len(store')] # Removed
           /\ req'.route = "parse"
           /\ response'[1].status = 200 ]_vars

\* two records were saved and the first was deleted then
C15_Witness ==
  /\ served = 3
  /\ Len(store) = 2
  /\ store[1] = Removed
  /\ store[2] # Removed
  /\ req = [route |-> "delete", id |-> 1]

\* C16: while parseCBCSyllabusTable runs, between rows, the current Subtopic is
\* none or a Subtopic of the current Topic, also after a row whose Topic
\* signal made an existing Topic current.
C16_SubtopicOfCurrentTopic ==
  (InTableParser /\ pc = "table") =>
     (currentSubtopic = NoSubtopic \/ currentSubtopic[1] = currentTopic)

\* no two nodes of the sequence have the same name
DistinctNames(nodes) ==
  \A i \in 1..Len(nodes) : \A j \in 1..Len(nodes) :
     nodes[i].name = nodes[j].name => i = j

\* C17: in the tree parseCBCSyllabusTable builds, after any rows, no two Topics
\* have the same name, no two Subtopics of one Topic have the same name and no
\* two competences of one Subtopic have the same description.
C17_NoDuplicateSiblings ==
  InTableParser =>
     /\ DistinctNames(topics)
     /\ \A t \in 1..Len(topics) :
          /\ DistinctNames(topics[t].subtopics)
          /\ \A u \in 1..Len(topics[t].subtopics) :
               LET cs == topics[t].subtopics[u].specificCompetences
               IN \A i \in 1..Len(cs) : \A j \in 1..Len(cs) :
                     cs[i].description = cs[j].description => i = j

\* a row repeated the label of the first of two Topics, which is current again
C17_Witness ==
  /\ InTableParser
  /\ pc = "table"
  /\ nfed = 3
  /\ Len(topics) = 2
  /\ currentTopic = 1

\* sequence a is the beginning of sequence b
IsPrefix(a, b) == Len(a) <= Len(b) /\ SubSeq(b, 1, Len(a)) = a

\* every list of Subtopic old is the beginning of the same list of new
SubtopicGrows(old, new) ==
  /\ new.name = old.name
  /\ \A k \in DOMAIN old \ {"name"} : IsPrefix(old[k], new[k])

\* the tree grows at the ends of its lists only
TreeGrows(old, new) ==
  /\ Len(old) <= Len(new)
  /\ \A t \in 1..Len(old) :
       /\ new[t].name = old[t].name
       /\ Len(old[t].subtopics) <= Len(new[t].subtopics)
       /\ \A u \in 1..Len(old[t].subtopics) :
            SubtopicGrows(old[t].subtopics[u], new[t].subtopics[u])

\* C18: every step of either parser keeps the Topics, the Subtopics of each
\* Topic and the lists of each Subtopic as they are and adds at their ends
\* only, so siblings stay in the order in which they were first met.
C18_SiblingOrder ==
  [][(pc \in {"text", "table"}) => TreeGrows(topics, topics')]_vars

\* a tree with two Topics, the first with two Subtopics, is under construction
C18_Witness ==
  /\ pc \in {"text", "table"}
  /\ Len(topics) >= 2
  /\ Len(topics[1].subtopics) >= 2

\* the locals of parseCBCSyllabusTable after the first k rows
After(rows, k) == RunRows(NewBuilder, SubSeq(rows, 1, k))

\* the texts of the cells of a row
CellTexts(row) == [i \in 1..Len(row) |-> extractText(row[i])]

\* the index of the first cell of the row whose number has this many
\* segments, 0 if no cell has
FirstCell(row, n) ==
  LET at == {i \in 1..Len(row) : getNumberingInfo(CellTexts(row)[i]) = n}
  IN IF at = {} THEN 0 ELSE CHOOSE i \in at : \A j \in at : i <= j

\* the row carries an Outcome signal and neither a Topic nor a Subtopic signal
OnlyOutcome(row) ==
  FirstCell(row, 4) # 0 /\ FirstCell(row, 2) = 0 /\ FirstCell(row, 3) = 0

\* the descriptions of the competences of Subtopic at of the tree
Descriptions(tps, at) ==
  LET cs == tps[at[1]].subtopics[at[2]].specificCompetences
  IN {cs[i].description : i \in 1..Len(cs)}

\* C19: when a Subtopic is open, every row that carries only an Outcome
\* signal leaves that Subtopic open, and the returned tree holds the row's
\* competence in that Subtopic, wherever the Outcome cell stands in the row.
C19_ContinuationRowsAttach ==
  outcome # Null =>
     \A k \in 1..Len(doc) :
        (OnlyOutcome(doc[k]) /\ After(doc, k - 1).currentSubtopic # NoSubtopic) =>
           /\ After(doc, k).currentSubtopic = After(doc, k - 1).currentSubtopic
           /\ CellTexts(doc[k])[FirstCell(doc[k], 4)] \in
                Descriptions(outcome[1][1].topics, After(doc, k - 1).currentSubtopic)

\* the competences of Subtopic at in the tree, none if it is not in the tree
CompetencesAt(tps, at) ==
  IF at[1] \in 1..Len(tps) /\ at[2] \in 1..Len(tps[at[1]].subtopics)
  THEN tps[at[1]].subtopics[at[2]].specificCompetences
  ELSE <<>>

\* row k of the table is not skipped: two cells at least, no header row
Processed(row) == Len(row) >= 2 /\ ~isHeaderRow(CellTexts(row))

\* row: its signals are the first cells with 2, 3 and 4 segments, and a
\* competence it adds takes its lists from the two cells after the Outcome's
SignalsOf(row, b, a) ==
  LET ft == FirstCell(row, 2)
      fs == FirstCell(row, 3)
      fc == FirstCell(row, 4)
      old == CompetencesAt(b.topics, a.currentSubtopic)
      new == CompetencesAt(a.topics, a.currentSubtopic)
  IN /\ ft # 0 =>
          /\ a.currentTopic # NoTopic
          /\ a.topics[a.currentTopic].name = CellTexts(row)[ft]
     /\ (fs # 0 /\ a.currentTopic # NoTopic) =>
          /\ a.currentSubtopic # NoSubtopic
          /\ a.topics[a.currentSubtopic[1]].subtopics[a.currentSubtopic[2]].name
               = CellTexts(row)[fs]
     /\ (fc # 0 /\ a.currentSubtopic # NoSubtopic) =>
          /\ CellTexts(row)[fc] \in Descriptions(a.topics, a.currentSubtopic)
          /\ Len(new) > Len(old) =>
               new[Len(new)] =
                 [description |-> CellTexts(row)[fc],
                  learningActivities |->
                    IF fc + 1 <= Len(row) THEN splitBulletContent(row[fc + 1]) ELSE <<>>,
                  expectedStandards |->
                    IF fc + 2 <= Len(row) THEN splitBulletContent(row[fc + 2]) ELSE <<>>]

\* C20: in each row the parser processes, the first cell with a 2-segment
\* number is the Topic signal, the first with 3 segments the Subtopic signal,
\* the first with 4 segments the Outcome signal, and a competence the row adds
\* has the items of the cell at the Outcome's index + 1 as learning activities
\* and those of the cell at index + 2 as expected standards, none for a cell
\* the row does not have.
C20_SignalsAndAttachment ==
  outcome # Null =>
     \A k \in 1..Len(doc) :
        Processed(doc[k]) => SignalsOf(doc[k], After(doc, k - 1), After(doc, k))

\* a table of a Topic row and a row that opens a Subtopic and adds a
\* competence: its activities come from the next cell, the last of the row,
\* and it has no standards
C20_Witness ==
  /\ outcome # Null
  /\ doc = << <<C1x2, H(<<>>)>>, <<C1x2x1, C2x1x1x1, CActs>> >>
  /\ Len(outcome[1][1].topics[1].subtopics[1].specificCompetences) = 1
  /\ outcome[1][1].topics[1].subtopics[1].specificCompetences[1].learningActivities
       = <<WKnows, WMix>>
  /\ outcome[1][1].topics[1].subtopics[1].specificCompetences[1].expectedStandards
       = <<>>

\* the builder of parseOBCSyllabus after the first k lines of ls
AfterLines(ls, k) == RunLines(NewBuilder, SubSeq(ls, 1, k))

\* the leading numbering token of a line has a segment count that names no
\* level: one segment, or five and more
OffLevel(line) == Len(Segments(line)) \notin {0, 2, 3, 4}

\* C21: a line whose leading numbering token has a segment count other than
\* 2, 3 or 4 (five segments, as in "10.1.1.1.1 x") is unrecognized prose for
\* parseOBCSyllabus: met with no pending number waiting, it adds no Topic,
\* Subtopic or Outcome.
C21_OffLevelLinesAreProse ==
  outcome # Null =>
    LET ls == Normalize(RawText(doc))
    IN \A k \in 1..Len(ls) :
         (OffLevel(ls[k]) /\ AfterLines(ls, k - 1).pendingNumber = NoNumber)
           => AfterLines(ls, k).topics = AfterLines(ls, k - 1).topics

\* C22: a line of the header denylist is discarded by parseOBCSyllabus before
\* any number matching and in every state: the tree, the current Topic, the
\* current Subtopic and the pending number are after it what they were
\* before it.
C22_HeaderLinesDiscarded ==
  outcome # Null =>
    LET ls == Normalize(RawText(doc))
    IN \A k \in 1..Len(ls) :
         IsHeaderLine(ls[k]) => AfterLines(ls, k) = AfterLines(ls, k - 1)

\* C22, witness: a header line was met while a Subtopic was open and a number
\* was pending
C22_Witness ==
  /\ outcome # Null
  /\ LET ls == Normalize(RawText(doc))
     IN \E k \in 1..Len(ls) :
          /\ IsHeaderLine(ls[k])
          /\ AfterLines(ls, k - 1).pendingNumber # NoNumber
          /\ AfterLines(ls, k - 1).currentSubtopic # NoSubtopic

\* the line holds no number that the tokenizer of parseOBCSyllabus recognizes
Unnumbered(line) == ~numberOnly(line) /\ extract(line) = Null

\* the line reads as content: it starts with the bullet glyph or a dash
ContentMark(line) == startsWith(line, <<Bullet>>) \/ startsWith(line, <<"-">>)

\* C23: a line without a recognized number, met by parseOBCSyllabus with no
\* pending number waiting, changes nothing unless a Subtopic is open and the
\* line starts with a bullet glyph or a dash: content met with no Subtopic
\* open and prose leave the tree and the pointers as they were, and the
\* parser still returns.
C23_UnnumberedLinesChangeNothing ==
  outcome # Null =>
    LET ls == Normalize(RawText(doc))
    IN \A k \in 1..Len(ls) :
         LET before == AfterLines(ls, k - 1)
         IN (/\ Unnumbered(ls[k])
             /\ before.pendingNumber = NoNumber
             /\ ~(before.currentSubtopic # NoSubtopic /\ ContentMark(ls[k])))
              => AfterLines(ls, k) = before

\* C23, witness: the document holds a bullet line met with no Subtopic open
\* and a line of prose met with one open, neither with a number pending
C23_Witness ==
  /\ outcome # Null
  /\ LET ls == Normalize(RawText(doc))
     IN /\ \E k \in 1..Len(ls) :
             /\ ContentMark(ls[k])
             /\ AfterLines(ls, k - 1).pendingNumber = NoNumber
             /\ AfterLines(ls, k - 1).currentSubtopic = NoSubtopic
        /\ \E k \in 1..Len(ls) :
             /\ Unnumbered(ls[k]) /\ ~ContentMark(ls[k]) /\ ~IsHeaderLine(ls[k])
             /\ AfterLines(ls, k - 1).pendingNumber = NoNumber
             /\ AfterLines(ls, k - 1).currentSubtopic # NoSubtopic

\* the Subtopic a builder's reference at names
SubtopicAt(b, at) == b.topics[at[1]].subtopics[at[2]]

\* the content line that parseOBCSyllabus is to accept: a bullet or dash line
\* of three characters or more once stripped, met while a Subtopic is open
\* and no number is pending
Accepted(b, line) ==
  /\ ContentMark(line)
  /\ Len(StripBullet(line)) >= 3
  /\ b.currentSubtopic # NoSubtopic
  /\ b.pendingNumber = NoNumber

OutcomeBuckets == {"knowledge", "skills", "values"}

\* C24: every content line accepted by parseOBCSyllabus is appended, as
\* stripped, to exactly one of the buckets knowledge, skills, values of the
\* current Subtopic, and the other two buckets are left as they were.
C24_SingleBucket ==
  outcome # Null =>
    LET ls == Normalize(RawText(doc))
    IN \A k \in 1..Len(ls) :
         LET before == AfterLines(ls, k - 1)
             after  == AfterLines(ls, k)
             old == SubtopicAt(before, before.currentSubtopic)
             new == SubtopicAt(after, before.currentSubtopic)
         IN Accepted(before, ls[k]) =>
              /\ Cardinality({f \in OutcomeBuckets :
                                new[f] = Append(old[f], StripBullet(ls[k]))}) = 1
              /\ Cardinality({f \in OutcomeBuckets : new[f] = old[f]}) = 2

\* the content starts with a keyword of the values set
ValuesKeyword(content) ==
  \/ startsWith(toLowerCase(content), <<"a","p","p","r","e","c","i","a","t">>)
  \/ startsWith(toLowerCase(content), <<"v","a","l","u","e">>)

\* the content starts with a keyword of the skills set
SkillsKeyword(content) ==
  \/ startsWith(toLowerCase(content), <<"m","e","a","s","u","r","e">>)
  \/ startsWith(toLowerCase(content), <<"c","a","l","c","u","l","a","t","e">>)
  \/ startsWith(toLowerCase(content), <<"d","e","m","o","n","s","t","r","a","t","e">>)

\* the bucket by priority: values, then skills, then the default
ByPriority(content) ==
  IF ValuesKeyword(content) THEN "values"
  ELSE IF SkillsKeyword(content) THEN "skills"
  ELSE "knowledge"

\* C25: the content of an accepted line goes to the bucket that the keyword
\* priority names: values when it starts with a values keyword, else skills
\* when it starts with a skills keyword, else knowledge.
C25_ClassifierPriority ==
  outcome # Null =>
    LET ls == Normalize(RawText(doc))
    IN \A k \in 1..Len(ls) :
         LET before == AfterLines(ls, k - 1)
             after  == AfterLines(ls, k)
             f == ByPriority(StripBullet(ls[k]))
         IN Accepted(before, ls[k]) =>
              SubtopicAt(after, before.currentSubtopic)[f] =
                Append(SubtopicAt(before, before.currentSubtopic)[f],
                       StripBullet(ls[k]))

\* C26: a Topic line, a Subtopic line that extends it, an Outcome line that
\* extends that and a bullet line with no values or skills keyword, given to
\* parseOBCSyllabus in this order, yield one Topic holding one Subtopic
\* holding one Outcome, with the bullet's text in the knowledge bucket of the
\* Subtopic and its skills and values buckets empty.
C26_ScenarioA ==
  (/\ outcome # Null
   /\ Len(Segments(doc[1])) = 2
   /\ Extends(doc[2], doc[1], 3)
   /\ Extends(doc[3], doc[2], 4)
   /\ ContentMark(doc[4])
   /\ ByPriority(StripBullet(doc[4])) = "knowledge")
    => /\ outcome[1] # Null
       /\ Len(outcome[1][1].topics) = 1
       /\ Len(outcome[1][1].topics[1].subtopics) = 1
       /\ LET s == outcome[1][1].topics[1].subtopics[1]
          IN /\ Len(s.specificOutcomes) = 1
             /\ s.knowledge = <<StripBullet(doc[4])>>
             /\ s.skills = <<>>
             /\ s.values = <<>>

\* C27: the Normalizer of parseOBCSyllabus is idempotent: run on its own
\* output, the lines joined by line breaks, it returns the same lines.
C27_NormalizeIdempotent ==
  outcome # Null => Normalize(Join(outcome[1], <<NL>>)) = outcome[1]

\* C27, witness: the Normalizer has canonicalized a line end, dropped the
\* empty line after it and broken the line before it in two at a numbering
\* token
C27_Witness ==
  /\ outcome # Null
  /\ Len(doc) = 4
  /\ doc[4] = <<"\r">>
  /\ \A i \in 1..3 : doc[i] \notin {<<"\r">>, <<NL>>}
  /\ Len(outcome[1]) = 2

\* the record that request r alone would have persisted, null when its
\* document alone yields no structure
OwnRecord(r) ==
  LET result == ParseUpload(req[r].upload, req[r].subject)
  IN IF result = Null THEN Null
     ELSE Some(AddRequestFields(result[1], req[r].category, req[r].gradeRange))

\* C28: however two parse requests interleave at their awaits, what each
\* hands to the store, what is persisted for it and what it is answered is
\* the result of parsing its own document alone; a request is answered with
\* the parsing failure exactly when its own document yields no structure.
C28_Reentrant ==
  /\ \A r \in Requests :
       /\ pc[r] = "creating" => parsed[r] = OwnRecord(r)
       /\ (pc[r] = "done" /\ response[r][1].status = 200) =>
            /\ response[r][1].body = OwnRecord(r)
            /\ \E i \in 1..Len(store) : <<store[i]>> = OwnRecord(r)
       /\ (pc[r] = "done" /\ req[r].file /\ response[r][1].status = 400) =>
            OwnRecord(r) = Null
  /\ \A i \in 1..Len(store) :
       \E r \in Requests : req[r].file /\ <<store[i]>> = OwnRecord(r)

\* C28, witness: both requests were parsed while neither was stored, their
\* documents differ, and then the one parsed last was stored first
C28_Witness ==
  /\ pc = [r \in Requests |-> "done"]
  /\ \A r \in Requests : response[r][1].status = 200
  /\ req[1].upload # req[2].upload
  /\ Len(store) = 2
  /\ <<store[1]>> = OwnRecord(2)
  /\ topics = store[1].topics

\* the values of category that SyllabusSchema admits
CategoryEnum == {"early-childhood", "primary", "secondary"}

\* request r has been answered with a failure and nothing was stored for it
Refused(r) == response[r][1].status \in {400, 500} /\ response[r][1].body = <<>>

\* C29, as stated: a parse request whose category is present but not one of
\* early-childhood, primary, secondary is answered with a failure and never
\* with a persisted record.
C29_InvalidCategoryRejected ==
  \A r \in Requests :
    (/\ pc[r] = "done"
     /\ req[r].file
     /\ req[r].category # Undefined
     /\ req[r].category \notin CategoryEnum) => Refused(r)

\* C29, amended: a parse request whose category is present, not empty and not
\* one of early-childhood, primary, secondary is answered with a failure and
\* never with a persisted record, and every persisted record has a category
\* of the enumeration.
C29_NonEmptyInvalidCategoryRejected ==
  /\ \A r \in Requests :
       (/\ pc[r] = "done"
        /\ req[r].file
        /\ req[r].category \notin Falsy
        /\ req[r].category \notin CategoryEnum) => Refused(r)
  /\ \A i \in 1..Len(store) : store[i].category \in CategoryEnum

\* C29, witness: a request with a category outside the enumeration was
\* parsed, its record handed to Syllabus.create, and it was answered 500
\* while the other request's record was stored
C29_Witness ==
  \E r \in Requests :
    /\ pc[r] = "done"
    /\ req[r].file
    /\ req[r].category = "tertiary"
    /\ parsed[r] # Null
    /\ response[r][1].status = 500
    /\ Len(store) = 1

\* the request answered last was one to generate-document
Generated == served > 0 /\ req.route = "generate"

\* C30, as stated: a request to generate-document without a prompt is
\* answered 400, a request arriving when no API key is configured is answered
\* 500, and in both cases the external AI service is not called.
C30_GenerateValidation ==
  Generated =>
    /\ req.prompt \in Falsy => (response[1].status = 400 /\ ai = Null)
    /\ req.key \in Falsy => (response[1].status = 500 /\ ai = Null)

\* C30, amended: a request to generate-document without a prompt is answered
\* 400, a request with a prompt arriving when no API key is configured is
\* answered 500, and in both cases the external AI service is not called.
C30_GenerateValidationInOrder ==
  Generated =>
    /\ req.prompt \in Falsy =>
         /\ response[1] = [status |-> 400, error |-> "Prompt is required", body |-> <<>>]
         /\ ai = Null /\ aiCalls = 0 /\ prompt = Null
    /\ (req.prompt \notin Falsy /\ req.key \in Falsy) =>
         /\ response[1].status = 500
         /\ ai = Null /\ aiCalls = 0 /\ prompt = Null

\* C30, witness: a request with a prompt was answered 500 for the missing key
C30_Witness ==
  /\ Generated
  /\ req.prompt \notin Falsy
  /\ req.key \in Falsy
  /\ response[1].status = 500
  /\ ai = Null

\* the leading word of a content string: what precedes its first blank
LeadingWord(content) ==
  IF \E i \in 1..Len(content) : content[i] \in WhiteSpace
  THEN SubSeq(content, 1, (CHOOSE i \in 1..Len(content) :
                             /\ content[i] \in WhiteSpace
                             /\ \A j \in 1..(i - 1) : content[j] \notin WhiteSpace) - 1)
  ELSE content

TokensOf(s) ==
  {LeadingNumber(SubSeq(s, i, Len(s))) : i \in {j \in 1..Len(s) : NumberStartsAt(s, j)}}

\* every numbering token of the text is whole on one of the lines
Intact(text, ls) ==
  \A tok \in TokensOf(text) : \E k \in 1..Len(ls) : includes(ls[k], tok)

\* C32: the Normalizer of parseOBCSyllabus and the pre-processing of the
\* earlier parsers break lines only before a whole numbering token, never
\* inside a maximal run of dot-separated digit groups: every numbering token
\* of the input is intact on one output line.
C32_TokensIntact ==
  outcome # Null =>
    /\ Intact(RawText(doc), Normalize(RawText(doc)))
    /\ Intact(RawText(doc), PreProcess(RawText(doc)))

\* C33: in parseOBCSyllabus a pending number is consumed by the next line
\* only: after a line that carries its own numbering token with text no
\* number is pending, so a pending number is never merged with a line that
\* comes after such a line.
C33_PendingNumberDropped ==
  outcome # Null =>
    LET ls == Normalize(RawText(doc))
    IN \A k \in 1..Len(ls) :
         (extract(ls[k]) # Null /\ ~numberOnly(ls[k]))
           => AfterLines(ls, k).pendingNumber = NoNumber

\* C34: while parseOBCSyllabus runs, between lines, the current Topic is none
\* or the last Topic, the current Subtopic is none or the last Subtopic of the
\* current Topic, and no Subtopic is current without a current Topic.
C34_PointerInvariant ==
  (InLineParser /\ pc = "text") =>
    /\ currentTopic \in {NoTopic, Len(topics)}
    /\ currentSubtopic # NoSubtopic =>
         /\ currentTopic # NoTopic
         /\ currentSubtopic = <<currentTopic, Len(topics[currentTopic].subtopics)>>

\* C34, witness: a second Topic has been opened after a Topic with a
\* Subtopic, and a Subtopic of the second is current
C34_Witness ==
  /\ InLineParser /\ pc = "text"
  /\ Len(topics) = 2
  /\ Len(topics[1].subtopics) = 1
  /\ currentSubtopic = <<2, 1>>

RECURSIVE SumOf(_)
\* the sum of a sequence of numbers
SumOf(ns) == IF ns = <<>> THEN 0 ELSE Head(ns) + SumOf(Tail(ns))

\* the Subtopics of a tree, counted
CountSubtopics(tps) == SumOf([t \in 1..Len(tps) |-> Len(tps[t].subtopics)])

\* the entries of the lists of a Subtopic, counted: outcomes and bucket items,
\* or competences
CountEntries(sub) ==
  LET ks == DOMAIN sub \ {"name"}
  IN IF ks = {"specificCompetences"} THEN Len(sub.specificCompetences)
     ELSE Len(sub.specificOutcomes) + Len(sub.knowledge)
            + Len(sub.skills) + Len(sub.values)

\* the outcomes, bucket items and competences of a tree, counted
CountLeaves(tps) ==
  SumOf([t \in 1..Len(tps) |->
           SumOf([u \in 1..Len(tps[t].subtopics) |->
                    CountEntries(tps[t].subtopics[u])])])

\* C35: a line of parseOBCSyllabus or a row of parseCBCSyllabusTable adds at
\* most one Topic, at most one Subtopic and at most one Outcome, competence
\* or bucket item, and removes, renames or moves nothing: the tree after a
\* step extends the tree before it.
C35_MonotonicGrowth ==
  [][(pc \in {"text", "table"}) =>
       /\ TreeGrows(topics, topics')
       /\ Len(topics') <= Len(topics) + 1
       /\ CountSubtopics(topics') <= CountSubtopics(topics) + 1
       /\ CountLeaves(topics') <= CountLeaves(topics) + 1]_vars

\* C35, witness: the first row of a table has added a Topic, a Subtopic and a
\* competence, and a later row a second competence
C35_Witness ==
  /\ InTableParser /\ pc = "table"
  /\ nfed = 2
  /\ Len(topics) = 1
  /\ Len(topics[1].subtopics) = 1
  /\ Len(topics[1].subtopics[1].specificCompetences) = 2

\* the row's Outcome text is the description of a competence that the
\* Subtopic current when the row's competence is processed held before the row
Repeats(row, b, a) ==
  /\ FirstCell(row, 4) # 0
  /\ a.currentSubtopic # NoSubtopic
  /\ \E i \in 1..Len(CompetencesAt(b.topics, a.currentSubtopic)) :
       CompetencesAt(b.topics, a.currentSubtopic)[i].description
         = CellTexts(row)[FirstCell(row, 4)]

\* C36: a row of the table whose Outcome text equals the description of a
\* competence already in the current Subtopic leaves the tree unchanged: the
\* competence keeps its learning activities and expected standards, and the
\* cells after the row's Outcome cell are not merged into it.
C36_DuplicateCompetenceIgnored ==
  outcome # Null =>
    \A k \in 1..Len(doc) :
      Repeats(doc[k], After(doc, k - 1), After(doc, k))
        => After(doc, k).topics = After(doc, k - 1).topics

\* C36, witness: a competence with activities and standards is met again in a
\* row whose next cell holds other items
C36_Witness ==
  /\ outcome # Null
  /\ doc = << <<C1x1, C1x1x1, C1x1x1x1, CActs, CStds>>, <<C1x1x1x1, CStds>> >>
  /\ Repeats(doc[2], After(doc, 1), After(doc, 2))
  /\ splitBulletContent(CStds) # splitBulletContent(CActs)
  /\ outcome[1][1].topics[1].subtopics[1].specificCompetences[1].learningActivities
       = splitBulletContent(CActs)

\* a cell of the row carries a Topic, Subtopic or Outcome numbering signal
HasSignal(row) == \E n \in {2, 3, 4} : FirstCell(row, n) # 0

\* C37: a row of two cells or more is skipped as a header row only when none
\* of its cells carries a numbering signal, and a row with an Outcome signal
\* met under an open Subtopic leaves its competence in that Subtopic.
C37_HeaderSkipNeedsNoSignal ==
  outcome # Null =>
    \A k \in 1..Len(doc) :
      (Len(doc[k]) >= 2 /\ HasSignal(doc[k])) =>
        /\ ~isHeaderRow(CellTexts(doc[k]))
        /\ (OnlyOutcome(doc[k]) /\ After(doc, k - 1).currentSubtopic # NoSubtopic) =>
             CellTexts(doc[k])[FirstCell(doc[k], 4)] \in
               Descriptions(After(doc, k).topics, After(doc, k - 1).currentSubtopic)

\* the record has the shape parseCBCSyllabusTable gives: its Subtopics hold
\* competences
TableBuilt(record) ==
  /\ record.form = "Form 1"
  /\ \A t \in 1..Len(record.topics) :
       \A u \in 1..Len(record.topics[t].subtopics) :
         DOMAIN record.topics[t].subtopics[u] = {"name", "specificCompetences"}

\* the record has the shape parseOBCSyllabus gives: its Subtopics hold the
\* four buckets
LineBuilt(record) ==
  /\ record.form = "Grade 10"
  /\ \A t \in 1..Len(record.topics) :
       \A u \in 1..Len(record.topics[t].subtopics) :
         DOMAIN record.topics[t].subtopics[u] =
           {"name", "specificOutcomes", "knowledge", "skills", "values"}

\* C38: every stored record is of kind cbc or obc; it is cbc and built by the
\* table parser exactly when the curriculum field of its request is 'cbc', and
\* obc and built by the line parser for every other value of the field
C38_CurriculumDispatch ==
  /\ pc = "table" => req.curriculum = "cbc"
  /\ pc = "text" => req.curriculum # "cbc"
  /\ \A i \in 1..Len(store) :
       IF req.curriculum = "cbc"
       THEN store[i].curriculumType = "cbc" /\ TableBuilt(store[i])
       ELSE store[i].curriculumType = "obc" /\ LineBuilt(store[i])

\* a record is stored for a request whose curriculum field is neither kind,
\* with a Subtopic in it
C38_Witness ==
  /\ Len(store) = 1
  /\ req.curriculum = "CBC"
  /\ store[1].curriculumType = "obc"
  /\ \E t \in 1..Len(store[1].topics) : Len(store[1].topics[t].subtopics) > 0

====
